---- MODULE Spec2Model ----
(***************************************************************************)
(* Model of sanic-beskar's Beskar guard (src/sanic_beskar/base.py): the    *)
(* claim-set construction of encode_token, the refresh path, the two token *)
(* codecs (JWT and PASETO) and the claims validator _validate_token_data.  *)
(*                                                                         *)
(* Time is counted in whole epoch seconds, as the code does with           *)
(* pendulum's int_timestamp; the model uses a small scaled clock.          *)
(* A claim set (a Python dict) is a function from claim names to values,   *)
(* so "k in data" is k \in DOMAIN data and dict.update is Update below.    *)
(***************************************************************************)
EXTENDS Integers, Sequences, FiniteSets, TLC

(* ----------------------------- bounds --------------------------------- *)
\* last instant of the model's clock
MaxTime == 5
\* largest lifespan a caller passes as an override (0 .. MaxLifespan)
MaxLifespan == 2
\* how many jti values encode_token may draw (uuid4 is modelled as a counter)
MaxJti == 2
\* how far the clock may advance between the two clock reads of a refresh
MaxDrift == 1

(* ------------------------ program constants --------------------------- *)
\* DEFAULT_TOKEN_ACCESS_LIFESPAN (15 minutes in the program, scaled)
DEFAULT_TOKEN_ACCESS_LIFESPAN == 1
\* DEFAULT_TOKEN_REFRESH_LIFESPAN (30 days in the program, scaled)
DEFAULT_TOKEN_REFRESH_LIFESPAN == 3
\* VITAM_AETERNUM (100 years in the program): longer than the whole clock
VITAM_AETERNUM == 100
\* timedelta.seconds is the lifespan modulo one day (scaled: longer than
\* every ordinary lifespan of the model, shorter than VITAM_AETERNUM)
SecondsPerDay == 50

\* the defaults of BESKAR_TOTP_ENFORCE, BESKAR_HASH_AUTOUPDATE and
\* BESKAR_HASH_AUTOTEST
DEFAULT_TOTP_ENFORCE == TRUE
DEFAULT_HASH_AUTOUPDATE == FALSE
DEFAULT_HASH_AUTOTEST == FALSE

REFRESH_EXPIRATION_CLAIM == "rf_exp"
IS_REGISTRATION_TOKEN_CLAIM == "is_registration_token"
IS_RESET_TOKEN_CLAIM == "is_reset_token"
RESERVED_CLAIMS ==
    { "iat", "exp", "jti", "id", "rls",
      REFRESH_EXPIRATION_CLAIM,
      IS_REGISTRATION_TOKEN_CLAIM,
      IS_RESET_TOKEN_CLAIM }

\* AccessType enum
AccessType == { "access", "refresh", "register", "reset" }

\* Python's None
None == "None"

(* --------------------------- dict helpers ----------------------------- *)
\* the empty dict
EmptyDict == [k \in {} |-> None]

\* dict.update(other): other's entries win
Update(d, other) ==
    [k \in (DOMAIN d) \cup (DOMAIN other) |->
        IF k \in DOMAIN other THEN other[k] ELSE d[k]]

\* {k: v for (k, v) in data.items() if k not in RESERVED_CLAIMS}
CustomClaimsOf(data) ==
    [k \in (DOMAIN data) \ RESERVED_CLAIMS |-> data[k]]

\* min(a, b)
Min(a, b) == IF a <= b THEN a ELSE b

\* ",".join(rolenames)
RECURSIVE JoinComma(_)
JoinComma(names) ==
    IF Len(names) = 0 THEN ""
    ELSE IF Len(names) = 1 THEN names[1]
    ELSE names[1] \o "," \o JoinComma(Tail(names))


(* ------------------------------ state --------------------------------- *)
VARIABLES
    now,             \* the UTC clock, pendulum.now("UTC").int_timestamp
    token_provider,  \* Beskar.token_provider: "jwt" or "paseto"
    totp_enforce,    \* Beskar.totp_enforce (BESKAR_TOTP_ENFORCE)
    hash_autoupdate, \* Beskar.hash_autoupdate (BESKAR_HASH_AUTOUPDATE)
    hash_autotest,   \* Beskar.hash_autotest (BESKAR_HASH_AUTOTEST)
    users,           \* the principal store behind user_class.identify
    blacklist,       \* the jti values for which is_blacklisted(jti) is true
    nextJti,         \* the next value uuid.uuid4() returns
    held,            \* the token string the caller holds (its wire payload)
    origin,          \* what the caller supplied when `held` was first encoded
    data,            \* a claim set handed directly to _validate_token_data
    res,             \* outcome of the most recent operation
    calls,           \* the _verify_totp coroutines in flight, by caller
    request,         \* the sanic request handed to read_token
    token_places,    \* Beskar.token_places (BESKAR_TOKEN_PLACES)
    paseto_key,      \* Beskar.paseto_key: the key, or the list of keys
    config,          \* app.config, as init_app reads it
    extensions,      \* app.ctx.extensions
    source_text,     \* the argument of duration_from_string
    issued           \* the tokens handed out so far, each with its history

vars == << now, token_provider, totp_enforce, hash_autoupdate,
           hash_autotest, users, blacklist, nextJti, held, origin, data,
           res, calls, request, token_places, paseto_key, config,
           extensions, source_text, issued >>

\* no token has been handed out
NoneIssued == {}

\* no _verify_totp coroutine is in flight
NoCalls == << >>

\* a request without headers and without cookies
NoRequest == [ headers |-> EmptyDict, cookies |-> EmptyDict ]

\* DEFAULT_TOKEN_PLACES of sanic_beskar.constants
DEFAULT_TOKEN_PLACES == << "header", "cookie" >>

\* no PASETO key configured
NoKeys == << >>

(* --------------------------- the validator ---------------------------- *)
\* is_blacklisted(jti); the default hook (lambda t: False) is the empty set
is_blacklisted(bl, jti) == jti \in bl

\* CommonRules as it would be if the id were looked for before the
\* blacklist is consulted
CommonRules_IdBeforeBlacklist(d, bl) ==
    IF "jti" \notin DOMAIN d THEN "MissingClaimError: jti"
    ELSE IF "id" \notin DOMAIN d THEN "MissingClaimError: id"
    ELSE IF is_blacklisted(bl, d["jti"]) THEN "BlacklistedError"
    ELSE IF "exp" \notin DOMAIN d THEN "MissingClaimError: exp"
    ELSE IF REFRESH_EXPIRATION_CLAIM \notin DOMAIN d
        THEN "MissingClaimError: rf_exp"
    ELSE "ok"

\* _validate_token_data, the rules common to every access type: the name
\* of the exception raised, or "ok" when none is. A MissingClaimError is
\* written with the claim its message names ("Token is missing jti claim").
CommonRules(d, bl) ==
    IF "jti" \notin DOMAIN d THEN "MissingClaimError: jti"
    ELSE IF is_blacklisted(bl, d["jti"]) THEN "BlacklistedError"
    ELSE IF "id" \notin DOMAIN d THEN "MissingClaimError: id"
    ELSE IF "exp" \notin DOMAIN d THEN "MissingClaimError: exp"
    ELSE IF REFRESH_EXPIRATION_CLAIM \notin DOMAIN d
        THEN "MissingClaimError: rf_exp"
    ELSE "ok"

\* AccessRules as it would be if expiry were tested with a strict "<"
AccessRules_StrictExpiry(d, moment) ==
    IF IS_REGISTRATION_TOKEN_CLAIM \in DOMAIN d
        THEN "MisusedRegistrationToken"
    ELSE IF IS_RESET_TOKEN_CLAIM \in DOMAIN d THEN "MisusedResetToken"
    ELSE IF ~(moment < d["exp"]) THEN "ExpiredAccessError"
    ELSE "ok"

\* _validate_token_data, branch access_type == AccessType.access
AccessRules(d, moment) ==
    IF IS_REGISTRATION_TOKEN_CLAIM \in DOMAIN d
        THEN "MisusedRegistrationToken"
    ELSE IF IS_RESET_TOKEN_CLAIM \in DOMAIN d THEN "MisusedResetToken"
    ELSE IF ~(moment <= d["exp"]) THEN "ExpiredAccessError"
    ELSE "ok"

\* RefreshRules as it would be if the early-refresh test were ">="
RefreshRules_EarlyOffByOne(d, moment) ==
    IF IS_REGISTRATION_TOKEN_CLAIM \in DOMAIN d
        THEN "MisusedRegistrationToken"
    ELSE IF IS_RESET_TOKEN_CLAIM \in DOMAIN d THEN "MisusedResetToken"
    ELSE IF ~(moment >= d["exp"]) THEN "EarlyRefreshError"
    ELSE IF ~(moment <= d[REFRESH_EXPIRATION_CLAIM])
        THEN "ExpiredRefreshError"
    ELSE "ok"

\* _validate_token_data, branch access_type == AccessType.refresh
RefreshRules(d, moment) ==
    IF IS_REGISTRATION_TOKEN_CLAIM \in DOMAIN d
        THEN "MisusedRegistrationToken"
    ELSE IF IS_RESET_TOKEN_CLAIM \in DOMAIN d THEN "MisusedResetToken"
    ELSE IF ~(moment > d["exp"]) THEN "EarlyRefreshError"
    ELSE IF ~(moment <= d[REFRESH_EXPIRATION_CLAIM])
        THEN "ExpiredRefreshError"
    ELSE "ok"

\* RegisterRules as it would be if the registration tag were looked for
\* before the expiry is tested
RegisterRules_TagFirst(d, moment) ==
    IF IS_REGISTRATION_TOKEN_CLAIM \notin DOMAIN d
        THEN "InvalidRegistrationToken"
    ELSE IF ~(moment <= d["exp"]) THEN "ExpiredAccessError"
    ELSE IF IS_RESET_TOKEN_CLAIM \in DOMAIN d THEN "MisusedResetToken"
    ELSE "ok"

\* _validate_token_data, branch access_type == AccessType.register
RegisterRules(d, moment) ==
    IF ~(moment <= d["exp"]) THEN "ExpiredAccessError"
    ELSE IF IS_REGISTRATION_TOKEN_CLAIM \notin DOMAIN d
        THEN "InvalidRegistrationToken"
    ELSE IF IS_RESET_TOKEN_CLAIM \in DOMAIN d THEN "MisusedResetToken"
    ELSE "ok"

\* ResetRules as it would be if the reset tag were looked for before the
\* expiry is tested
ResetRules_TagBeforeExpiry(d, moment) ==
    IF IS_REGISTRATION_TOKEN_CLAIM \in DOMAIN d
        THEN "MisusedRegistrationToken"
    ELSE IF IS_RESET_TOKEN_CLAIM \notin DOMAIN d THEN "InvalidResetToken"
    ELSE IF ~(moment <= d["exp"]) THEN "ExpiredAccessError"
    ELSE "ok"

\* _validate_token_data, branch access_type == AccessType.reset
ResetRules(d, moment) ==
    IF IS_REGISTRATION_TOKEN_CLAIM \in DOMAIN d
        THEN "MisusedRegistrationToken"
    ELSE IF ~(moment <= d["exp"]) THEN "ExpiredAccessError"
    ELSE IF IS_RESET_TOKEN_CLAIM \notin DOMAIN d THEN "InvalidResetToken"
    ELSE "ok"

\* PurposeRules as it would be if the refresh branch tested the two expiry
\* instants before the purpose tags
PurposeRules_RefreshTimingFirst(d, access_type, moment) ==
    CASE access_type = "access" -> AccessRules(d, moment)
      [] access_type = "refresh" ->
            IF ~(moment > d["exp"]) THEN "EarlyRefreshError"
            ELSE IF ~(moment <= d[REFRESH_EXPIRATION_CLAIM])
                THEN "ExpiredRefreshError"
            ELSE IF IS_REGISTRATION_TOKEN_CLAIM \in DOMAIN d
                THEN "MisusedRegistrationToken"
            ELSE IF IS_RESET_TOKEN_CLAIM \in DOMAIN d
                THEN "MisusedResetToken"
            ELSE "ok"
      [] access_type = "register" -> RegisterRules(d, moment)
      [] access_type = "reset" -> ResetRules(d, moment)
      [] OTHER -> "ok"

\* PurposeRules as it would be if access stayed valid until the refresh
\* expiry
PurposeRules_AccessUntilRefreshExpiry(d, access_type, moment) ==
    CASE access_type = "access" ->
            IF IS_REGISTRATION_TOKEN_CLAIM \in DOMAIN d
                THEN "MisusedRegistrationToken"
            ELSE IF IS_RESET_TOKEN_CLAIM \in DOMAIN d
                THEN "MisusedResetToken"
            ELSE IF ~(moment <= d[REFRESH_EXPIRATION_CLAIM])
                THEN "ExpiredAccessError"
            ELSE "ok"
      [] access_type = "refresh" -> RefreshRules(d, moment)
      [] access_type = "register" -> RegisterRules(d, moment)
      [] access_type = "reset" -> ResetRules(d, moment)
      [] OTHER -> "ok"

\* the rules of the requested access type
PurposeRules(d, access_type, moment) ==
    CASE access_type = "access" -> AccessRules(d, moment)
      [] access_type = "refresh" -> RefreshRules(d, moment)
      [] access_type = "register" -> RegisterRules(d, moment)
      [] access_type = "reset" -> ResetRules(d, moment)
      [] OTHER -> "ok"

\* _validate_token_data as it would be if the rules of the access type came
\* before the common rules
_validate_token_data_PurposeFirst(d, access_type, moment, bl) ==
    IF PurposeRules(d, access_type, moment) # "ok"
        THEN PurposeRules(d, access_type, moment)
    ELSE CommonRules(d, bl)

\* Beskar._validate_token_data(data, access_type), reading the clock as
\* `moment` after the common rules have passed.
_validate_token_data(d, access_type, moment, bl) ==
    IF CommonRules(d, bl) # "ok" THEN CommonRules(d, bl)
    ELSE PurposeRules(d, access_type, moment)


(* ------------------------------ principals ---------------------------- *)
\* identities of the principals the store may hold
UserIds == { 1 }

\* user_class.identify / lookup returning None
NoUser ==
    [ present |-> FALSE, identity |-> 0, rolenames |-> << >>,
      has_validate |-> FALSE, is_active |-> FALSE ]

\* a stored principal; its validation method (is_valid) returns is_active
UserObject(i, roles, validating, active) ==
    [ present |-> TRUE, identity |-> i, rolenames |-> roles,
      has_validate |-> validating, is_active |-> active ]

\* user_class.identify(id)
identify(store, i) == IF i \in DOMAIN store THEN store[i] ELSE NoUser

\* _check_user as it would be if the validation method were never called
_check_user_PredicateIgnored(user) ==
    IF ~user.present THEN "MissingUserError" ELSE "ok"

\* Beskar._check_user(user): the exception raised, or "ok"
_check_user(user) ==
    IF ~user.present THEN "MissingUserError"
    ELSE IF ~user.has_validate THEN "ok"
    ELSE IF ~user.is_active THEN "InvalidUserError"
    ELSE "ok"

\* whether _check_user(user) calls the principal's validation method
CallsValidate(user) == user.present /\ user.has_validate

(* ------------------------------- codecs ------------------------------- *)
\* override_*_lifespan=None
NoOverride == -1

\* timedelta.seconds of a lifespan
Seconds(lifespan) == lifespan % SecondsPerDay

\* Beskar.access_lifespan / refresh_lifespan as init_app configures them
access_lifespan == DEFAULT_TOKEN_ACCESS_LIFESPAN
refresh_lifespan == DEFAULT_TOKEN_REFRESH_LIFESPAN

\* the exp the PASETO context was built with:
\* Paseto(exp=self.access_lifespan.seconds, include_iat=False)
paseto_ctx_exp == Seconds(access_lifespan)

\* no token at all
NoToken == [ format |-> "none", payload |-> EmptyDict ]

\* an ISO-8601 timestamp string of whole seconds, as PASETO carries exp
Isoformat(t) == [ iso |-> t ]

\* pendulum.parse(text).int_timestamp
ParseTimestamp(text) == text.iso

\* jwt.encode(payload_parts, key, algorithm): the claims travel as they are
JwtEncode(payload_parts) == [ format |-> "jwt", payload |-> payload_parts ]

\* paseto_ctx.encode(key, payload_parts, serializer=ujson, exp=time_delta),
\* called at clock reading libnow. The codec stores its own exp, "seconds from
\* now()": it overwrites payload["exp"] with the timestamp string of
\* libnow + exp. Its exp argument defaults to 0, so a time_delta of 0 is
\* "not given" and the exp the context was built with is used instead.
PasetoEncode(payload_parts, time_delta, libnow) ==
    LET seconds == IF time_delta > 0 THEN time_delta ELSE paseto_ctx_exp
    IN  [ format |-> "paseto",
          payload |-> Update(payload_parts,
                             [k \in {"exp"} |-> Isoformat(libnow + seconds)]) ]

\* the codec the configured provider selects
EncodeWire(provider, payload_parts, time_delta, libnow) ==
    IF provider = "paseto"
        THEN PasetoEncode(payload_parts, time_delta, libnow)
        ELSE JwtEncode(payload_parts)

\* jwt.decode(..., options={"verify_exp": False}) then the claims as they are;
\* the PASETO path decrypts and then converts exp "to expected time format".
\* Neither checks expiry.
DecodeWire(provider, token) ==
    IF provider = "paseto"
        THEN Update(token.payload,
                    [k \in {"exp"} |-> ParseTimestamp(token.payload["exp"])])
        ELSE token.payload

\* whether the configured codec can read the token at all
Decodable(provider, token) == token.format = provider


(* ----------------------- building the claim set ----------------------- *)
\* the lifespan in force: the override unless it is None
Lifespan(override, configured) ==
    IF override = NoOverride THEN configured ELSE override

\* refresh_expiration = (moment + refresh_lifespan).int_timestamp
RefreshExpiration(moment, override_refresh_lifespan) ==
    moment + Lifespan(override_refresh_lifespan, refresh_lifespan)

\* access_expiration = min((moment + access_lifespan).int_timestamp,
\*                         refresh_expiration)
AccessExpiration(moment, override_access_lifespan, refresh_expiration) ==
    Min(moment + Lifespan(override_access_lifespan, access_lifespan),
        refresh_expiration)

\* the purpose tags encode_*_token adds
PurposeTags(is_registration_token, is_reset_token) ==
    [k \in ( (IF is_registration_token
                THEN {IS_REGISTRATION_TOKEN_CLAIM} ELSE {})
             \cup
             (IF is_reset_token THEN {IS_RESET_TOKEN_CLAIM} ELSE {}) )
        |-> TRUE]

\* EncodePayload as it would be if the custom claims were not attached
EncodePayload_NoCustom(user, moment, override_access_lifespan, override_refresh_lifespan, is_registration_token, is_reset_token, custom_claims, jti) ==
    LET refresh_expiration ==
            RefreshExpiration(moment, override_refresh_lifespan)
        access_expiration ==
            AccessExpiration(moment, override_access_lifespan,
                             refresh_expiration)
        base == [k \in {"iat", "exp", "jti", "id", "rls",
                        REFRESH_EXPIRATION_CLAIM} |->
                    CASE k = "iat" -> moment
                      [] k = "exp" -> access_expiration
                      [] k = "jti" -> jti
                      [] k = "id" -> user.identity
                      [] k = "rls" -> JoinComma(user.rolenames)
                      [] OTHER -> refresh_expiration]
    IN  Update(base, PurposeTags(is_registration_token, is_reset_token))

\* EncodePayload as it would be if every token were given the same jti
\* instead of a new uuid4
EncodePayload_SameJti(user, moment, override_access_lifespan, override_refresh_lifespan, is_registration_token, is_reset_token, custom_claims, jti) ==
    LET refresh_expiration ==
            RefreshExpiration(moment, override_refresh_lifespan)
        access_expiration ==
            AccessExpiration(moment, override_access_lifespan,
                             refresh_expiration)
        base == [k \in {"iat", "exp", "jti", "id", "rls",
                        REFRESH_EXPIRATION_CLAIM} |->
                    CASE k = "iat" -> moment
                      [] k = "exp" -> access_expiration
                      [] k = "jti" -> 1
                      [] k = "id" -> user.identity
                      [] k = "rls" -> JoinComma(user.rolenames)
                      [] OTHER -> refresh_expiration]
    IN  Update(Update(base,
                      PurposeTags(is_registration_token, is_reset_token)),
               custom_claims)

\* payload_parts of encode_jwt_token / encode_paseto_token (the two build
\* the same dict)
EncodePayload(user, moment, override_access_lifespan, override_refresh_lifespan, is_registration_token, is_reset_token, custom_claims, jti) ==
    LET refresh_expiration ==
            RefreshExpiration(moment, override_refresh_lifespan)
        access_expiration ==
            AccessExpiration(moment, override_access_lifespan,
                             refresh_expiration)
        base == [k \in {"iat", "exp", "jti", "id", "rls",
                        REFRESH_EXPIRATION_CLAIM} |->
                    CASE k = "iat" -> moment
                      [] k = "exp" -> access_expiration
                      [] k = "jti" -> jti
                      [] k = "id" -> user.identity
                      [] k = "rls" -> JoinComma(user.rolenames)
                      [] OTHER -> refresh_expiration]
    IN  Update(Update(base,
                      PurposeTags(is_registration_token, is_reset_token)),
               custom_claims)

\* RefreshPayload as it would be if the old token's custom claims were not
\* carried forward
RefreshPayload_NoCustom(d, user, moment, override_access_lifespan) ==
    LET refresh_expiration == d[REFRESH_EXPIRATION_CLAIM]
        access_expiration ==
            AccessExpiration(moment, override_access_lifespan,
                             refresh_expiration)
    IN  [k \in {"iat", "exp", "jti", "id", "rls",
                REFRESH_EXPIRATION_CLAIM} |->
            CASE k = "iat" -> moment
              [] k = "exp" -> access_expiration
              [] k = "jti" -> d["jti"]
              [] k = "id" -> d["id"]
              [] k = "rls" -> JoinComma(user.rolenames)
              [] OTHER -> refresh_expiration]

\* RefreshPayload as it would be if the rls claim were carried over from
\* the old token like id and jti
RefreshPayload_OldRoles(d, user, moment, override_access_lifespan) ==
    LET refresh_expiration == d[REFRESH_EXPIRATION_CLAIM]
        access_expiration ==
            AccessExpiration(moment, override_access_lifespan,
                             refresh_expiration)
        base == [k \in {"iat", "exp", "jti", "id", "rls",
                        REFRESH_EXPIRATION_CLAIM} |->
                    CASE k = "iat" -> moment
                      [] k = "exp" -> access_expiration
                      [] k = "jti" -> d["jti"]
                      [] k = "id" -> d["id"]
                      [] k = "rls" -> d["rls"]
                      [] OTHER -> refresh_expiration]
    IN  Update(base, CustomClaimsOf(d))

\* payload_parts of refresh_jwt_token / refresh_paseto_token
RefreshPayload(d, user, moment, override_access_lifespan) ==
    LET refresh_expiration == d[REFRESH_EXPIRATION_CLAIM]
        access_expiration ==
            AccessExpiration(moment, override_access_lifespan,
                             refresh_expiration)
        base == [k \in {"iat", "exp", "jti", "id", "rls",
                        REFRESH_EXPIRATION_CLAIM} |->
                    CASE k = "iat" -> moment
                      [] k = "exp" -> access_expiration
                      [] k = "jti" -> d["jti"]
                      [] k = "id" -> d["id"]
                      [] k = "rls" -> JoinComma(user.rolenames)
                      [] OTHER -> refresh_expiration]
    IN  Update(base, CustomClaimsOf(d))

\* ClaimCollisionError.require_condition(
\*     set(custom_claims.keys()).isdisjoint(RESERVED_CLAIMS), ...)
Collides(custom_claims) == (DOMAIN custom_claims) \cap RESERVED_CLAIMS # {}

(* ------------------------ outcome of an operation --------------------- *)
\* what the last operation did: its exception (or "ok"), the clock readings
\* it took, the token it was given, the claims it decoded, the claim set it
\* built or returned, the token it returned, whether it called the
\* principal's validation method, the encode/refresh hook and uuid4, and
\* the lifespan overrides and the other arguments it was given.
Outcome(op, access_type, err, moment, vmoment, input, decoded, claims, token, checked, hooked, drawn, oa, orr, args) ==
    [ op |-> op, access_type |-> access_type, err |-> err,
      moment |-> moment, vmoment |-> vmoment, input |-> input,
      decoded |-> decoded, claims |-> claims, token |-> token,
      checked |-> checked, hooked |-> hooked, drawn |-> drawn,
      oa |-> oa, orr |-> orr, args |-> args ]

\* the arguments of an operation that takes no user and no custom claims
NoArgs == [ user |-> NoUser, bypass |-> FALSE, custom |-> EmptyDict ]

\* nothing has run since the clock last advanced
Idle ==
    Outcome("idle", "none", "ok", 0, 0, NoToken, EmptyDict, EmptyDict,
            NoToken, FALSE, FALSE, FALSE, NoOverride, NoOverride, NoArgs)

\* nothing is known about the origin of the held token
NoOrigin ==
    [ user |-> NoUser, custom |-> EmptyDict, defaults |-> FALSE,
      tagged |-> FALSE, fresh |-> FALSE ]


(* ------------------------------ operations ---------------------------- *)
\* EncodeError as it would be if the user were checked before the custom
\* claims
EncodeError_UserFirst(user, bypass_user_check, custom_claims) ==
    IF ~bypass_user_check /\ _check_user(user) # "ok"
        THEN _check_user(user)
    ELSE IF Collides(custom_claims) THEN "ClaimCollisionError"
    ELSE IF ~user.present THEN "AttributeError"
    ELSE "ok"

\* the exception encode_*_token raises, or "ok"
EncodeError(user, bypass_user_check, custom_claims) ==
    IF Collides(custom_claims) THEN "ClaimCollisionError"
    ELSE IF ~bypass_user_check /\ _check_user(user) # "ok"
        THEN _check_user(user)
    ELSE IF ~user.present THEN "AttributeError"
    ELSE "ok"

\* Beskar.encode_token -> encode_jwt_token / encode_paseto_token.
\* An encode hook is configured; `hooked` records that it was invoked.
EncodeToken(user, override_access_lifespan, override_refresh_lifespan, bypass_user_check, is_registration_token, is_reset_token, custom_claims) ==
    LET err == EncodeError(user, bypass_user_check, custom_claims)
        checked == ~Collides(custom_claims) /\ ~bypass_user_check
                   /\ CallsValidate(user)
        \* str(uuid.uuid4()) is evaluated while the dict literal is built,
        \* before user.identity is read
        drawn == err \in {"ok", "AttributeError"}
        moment == now
        payload_parts ==
            EncodePayload(user, moment, override_access_lifespan,
                          override_refresh_lifespan, is_registration_token,
                          is_reset_token, custom_claims, nextJti)
        time_delta == payload_parts["exp"] - moment
        token == EncodeWire(token_provider, payload_parts, time_delta, now)
    IN  /\ nextJti <= MaxJti
        /\ res' = Outcome("encode", "none", err, moment, moment, NoToken,
                          EmptyDict,
                          IF err = "ok" THEN payload_parts ELSE EmptyDict,
                          IF err = "ok" THEN token ELSE NoToken,
                          checked, err = "ok", drawn,
                          IF err = "ok" THEN override_access_lifespan
                                        ELSE NoOverride,
                          IF err = "ok" THEN override_refresh_lifespan
                                        ELSE NoOverride,
                          [ user |-> user, bypass |-> bypass_user_check,
                            custom |-> custom_claims ])
        /\ nextJti' = IF drawn THEN nextJti + 1 ELSE nextJti
        /\ held' = IF err = "ok" THEN token ELSE held
        /\ origin' = IF err = "ok"
                        THEN [ user |-> user, custom |-> custom_claims,
                               defaults |->
                                   /\ override_access_lifespan = NoOverride
                                   /\ override_refresh_lifespan = NoOverride,
                               tagged |-> is_registration_token
                                          \/ is_reset_token,
                               fresh |-> TRUE ]
                        ELSE origin
        /\ UNCHANGED << now, token_provider, totp_enforce,
                    hash_autoupdate, hash_autotest, calls, request,
                    token_places, paseto_key, config, extensions, source_text, users, blacklist, data,
                    issued >>

\* Beskar.encode_eternal_token
EncodeEternalToken(user, custom_claims) ==
    EncodeToken(user, VITAM_AETERNUM, VITAM_AETERNUM, FALSE, FALSE, FALSE,
                custom_claims)

\* ExtractError as it would be if the codec verified exp while decoding
\* (the failure is then wrapped as InvalidTokenHeader)
ExtractError_VerifyExp(provider, token, access_type, moment, bl) ==
    IF ~Decodable(provider, token) THEN "InvalidTokenHeader"
    ELSE IF DecodeWire(provider, token)["exp"] < moment
        THEN "InvalidTokenHeader"
    ELSE _validate_token_data(DecodeWire(provider, token), access_type,
                              moment, bl)

\* the exception extract_*_token raises for the token, or "ok"
ExtractError(provider, token, access_type, moment, bl) ==
    IF ~Decodable(provider, token) THEN "InvalidTokenHeader"
    ELSE _validate_token_data(DecodeWire(provider, token), access_type,
                              moment, bl)

\* ExtractToken as it would be if extract_token re-resolved the principal of
\* the token and checked it, as refresh_token does
ExtractToken_ChecksUser(access_type) ==
    LET verr == ExtractError(token_provider, held, access_type, now,
                             blacklist)
        decoded == IF Decodable(token_provider, held)
                      THEN DecodeWire(token_provider, held) ELSE EmptyDict
        user == IF "id" \in DOMAIN decoded
                   THEN identify(users, decoded["id"]) ELSE NoUser
        err == IF verr # "ok" THEN verr ELSE _check_user(user)
    IN  /\ held # NoToken
        /\ res' = Outcome("extract", access_type, err, now, now, held,
                          decoded,
                          IF err = "ok" THEN decoded ELSE EmptyDict,
                          NoToken, FALSE, FALSE, FALSE,
                          NoOverride, NoOverride, NoArgs)
        /\ UNCHANGED << now, token_provider, totp_enforce,
                        hash_autoupdate, hash_autotest, calls, request,
                        token_places, paseto_key, config, extensions,
                        source_text, users, blacklist, nextJti, held,
                        origin, data, issued >>

\* Beskar.extract_token -> extract_jwt_token / extract_paseto_token
ExtractToken(access_type) ==
    LET err == ExtractError(token_provider, held, access_type, now,
                            blacklist)
        decoded == IF Decodable(token_provider, held)
                      THEN DecodeWire(token_provider, held) ELSE EmptyDict
    IN  /\ held # NoToken
        /\ res' = Outcome("extract", access_type, err, now, now, held,
                          decoded,
                          IF err = "ok" THEN decoded ELSE EmptyDict,
                          NoToken, FALSE, FALSE, FALSE,
                          NoOverride, NoOverride, NoArgs)
        /\ UNCHANGED << now, token_provider, totp_enforce,
                    hash_autoupdate, hash_autotest, calls, request,
                    token_places, paseto_key, config, extensions, source_text, users, blacklist, nextJti,
                        held, origin, data,
                    issued >>

\* RefreshError as it would be if the principal were re-resolved and checked
\* before the old token is validated
RefreshError_UserFirst(verr, user) ==
    IF _check_user(user) # "ok" THEN _check_user(user) ELSE verr

\* the exception refresh_*_token raises, or "ok": extract_token(token,
\* access_type=AccessType.refresh) comes first, then identify and _check_user
RefreshError(verr, user) ==
    IF verr # "ok" THEN verr ELSE _check_user(user)

\* Beskar.refresh_token -> refresh_jwt_token / refresh_paseto_token.
\* `moment` is read first; the validator reads the clock again after the
\* awaits in between, drift seconds later; the PASETO codec reads it when it
\* serializes. A refresh hook is configured.
RefreshToken(override_access_lifespan, drift) ==
    LET moment == now
        vmoment == now + drift
        verr == ExtractError(token_provider, held, "refresh", vmoment,
                             blacklist)
        d == IF Decodable(token_provider, held)
                THEN DecodeWire(token_provider, held) ELSE EmptyDict
        user == IF "id" \in DOMAIN d THEN identify(users, d["id"])
                                     ELSE NoUser
        err == RefreshError(verr, user)
        payload_parts ==
            RefreshPayload(d, user, moment, override_access_lifespan)
        time_delta == payload_parts["exp"] - moment
        token == EncodeWire(token_provider, payload_parts, time_delta,
                            vmoment)
    IN  /\ held # NoToken
        /\ vmoment <= MaxTime
        /\ now' = vmoment
        /\ res' = Outcome("refresh", "refresh", err, moment, vmoment, held,
                          d,
                          IF err = "ok" THEN payload_parts ELSE EmptyDict,
                          IF err = "ok" THEN token ELSE NoToken,
                          verr = "ok" /\ CallsValidate(user), err = "ok",
                          FALSE, override_access_lifespan, NoOverride,
                          NoArgs)
        /\ held' = IF err = "ok" THEN token ELSE held
        /\ origin' = IF err = "ok" THEN [origin EXCEPT !.fresh = FALSE]
                                   ELSE origin
        /\ UNCHANGED << token_provider, totp_enforce,
                    hash_autoupdate, hash_autotest, calls, request,
                    token_places, paseto_key, config, extensions, source_text, users, blacklist, nextJti, data,
                    issued >>

\* the outcome of an operation that returns a principal: the exception (or
\* "ok"), the token it was given, the claims decoded from it and the user
\* returned
UserOutcome(op, access_type, err, input, decoded, user) ==
    [ op |-> op, access_type |-> access_type, err |-> err,
      moment |-> now, vmoment |-> now, input |-> input,
      decoded |-> decoded, claims |-> EmptyDict, token |-> NoToken,
      checked |-> FALSE, hooked |-> FALSE, drawn |-> FALSE,
      oa |-> NoOverride, orr |-> NoOverride, args |-> NoArgs,
      user |-> user ]

\* the exception get_user_from_registration_token / validate_reset_token
\* raises, or "ok": extract_token for the access type, then data.get("id"),
\* then identify
UserFromTokenError(token, access_type) ==
    LET err == ExtractError(token_provider, token, access_type, now,
                            blacklist)
        d == DecodeWire(token_provider, token)
    IN  IF err # "ok" THEN err
        ELSE IF "id" \notin DOMAIN d THEN "BeskarError"
        ELSE IF ~identify(users, d["id"]).present THEN "BeskarError"
        ELSE "ok"

\* the body shared by get_user_from_registration_token and
\* validate_reset_token
UserFromToken(op, access_type, token) ==
    LET err == UserFromTokenError(token, access_type)
        decoded == IF Decodable(token_provider, token)
                      THEN DecodeWire(token_provider, token) ELSE EmptyDict
    IN  /\ res' = UserOutcome(op, access_type, err, token, decoded,
                              IF err = "ok"
                                  THEN identify(users, decoded["id"])
                                  ELSE NoUser)
        /\ UNCHANGED << now, token_provider, totp_enforce,
                    hash_autoupdate, hash_autotest, calls, request,
                    token_places, paseto_key, config, extensions, source_text, users, blacklist, nextJti,
                        held, origin, data,
                    issued >>

\* Beskar.get_user_from_registration_token(token)
GetUserFromRegistrationToken(token) ==
    UserFromToken("get_user_from_registration_token", "register", token)

\* Beskar.validate_reset_token(token)
ValidateResetToken(token) ==
    UserFromToken("validate_reset_token", "reset", token)

\* _validate_token_data called directly on a claim set
ValidateTokenData(access_type) ==
    /\ res' = Outcome("validate", access_type,
                      _validate_token_data(data, access_type, now,
                                           blacklist),
                      now, now, NoToken, data, EmptyDict, NoToken,
                      FALSE, FALSE, FALSE, NoOverride, NoOverride, NoArgs)
    /\ UNCHANGED << now, token_provider, totp_enforce,
                    hash_autoupdate, hash_autotest, calls, request,
                    token_places, paseto_key, config, extensions, source_text, users, blacklist, nextJti, held,
                    origin, data,
                    issued >>

\* a second passes
Tick ==
    /\ now < MaxTime
    /\ now' = now + 1
    /\ res' = Idle
    /\ UNCHANGED << token_provider, totp_enforce,
                    hash_autoupdate, hash_autotest, calls, request,
                    token_places, paseto_key, config, extensions, source_text, users, blacklist, nextJti, held, origin,
                    data,
                    issued >>


(* --------------------------- authentication --------------------------- *)
\* last_counter=None, which the TOTP verifier takes as -1
NoCounter == -1

\* the period of a TOTP counter and the verification window, in seconds
TotpPeriod == 1
TotpWindow == 1

Max(a, b) == IF a >= b THEN a ELSE b

\* the counter of the period an instant falls in (instants before 0 count
\* as 0, the verifier's "if start < 0: start = 0")
time_to_counter(time) == Max(0, time) \div TotpPeriod

\* the token argument: None, the code of a counter, a well-formed code that
\* matches no counter, or a code with the wrong number of digits
NoTotpToken == [ kind |-> "none", counter |-> 0 ]
TotpCode(counter) == [ kind |-> "code", counter |-> counter ]
WrongCode == [ kind |-> "wrong", counter |-> 0 ]
MalformedCode == [ kind |-> "malformed", counter |-> 0 ]

\* TotpVerify as it would be if a used counter were not told apart from a
\* code that matches nothing
TotpVerify_NoReplayError(token, last_counter, time) ==
    LET start == Max(last_counter, time_to_counter(time - TotpWindow))
        end == time_to_counter(time + TotpWindow) + 1
    IN  IF token.kind = "malformed" THEN "MalformedTokenError"
        ELSE IF end <= start THEN "InvalidTokenError"
        ELSE IF token.kind # "code" THEN "InvalidTokenError"
        ELSE IF token.counter \notin start .. (end - 1)
            THEN "InvalidTokenError"
        ELSE IF token.counter = last_counter THEN "InvalidTokenError"
        ELSE "ok"

\* totp_factory.verify(token, user.totp, last_counter=_last_counter) at the
\* given instant: the exception raised, or "ok". The token is normalized
\* first, then looked for among the counters of the window that are not
\* below last_counter; a match on last_counter itself is a replay.
TotpVerify(token, last_counter, time) ==
    LET start == Max(last_counter, time_to_counter(time - TotpWindow))
        end == time_to_counter(time + TotpWindow) + 1
    IN  IF token.kind = "malformed" THEN "MalformedTokenError"
        ELSE IF end <= start THEN "InvalidTokenError"
        ELSE IF token.kind # "code" THEN "InvalidTokenError"
        ELSE IF token.counter \notin start .. (end - 1)
            THEN "InvalidTokenError"
        ELSE IF token.counter = last_counter THEN "UsedTokenError"
        ELSE "ok"

\* a stored password hash: the password it was made from and whether the
\* scheme is the current one
Hash(plain, scheme) == [ plain |-> plain, scheme |-> scheme ]

\* user_class.lookup returning None
NoAuthUser ==
    [ present |-> FALSE, username |-> "", password |-> Hash("", "current"),
      has_totp |-> FALSE, totp |-> "empty",
      has_get_cache_verify |-> FALSE, has_cache_verify |-> FALSE,
      totp_last_counter |-> NoCounter ]

\* a stored user: whether it has a totp attribute at all, what the attribute
\* holds ("empty", "notjson", "falsyjson" such as "{}", or "secret"), and
\* which of the two cache hooks its class defines
AuthUser(username, hash, has_totp, totp, has_get, has_cache) ==
    [ present |-> TRUE, username |-> username, password |-> hash,
      has_totp |-> has_totp, totp |-> totp,
      has_get_cache_verify |-> has_get, has_cache_verify |-> has_cache,
      totp_last_counter |-> NoCounter ]

\* user_class.lookup(username=username)
lookup(store, username) ==
    IF username \in DOMAIN store THEN store[username] ELSE NoAuthUser

\* Beskar._verify_password: pwd_ctx.verify(raw_password, hashed_password)
_verify_password(raw_password, hashed_password) ==
    raw_password = hashed_password.plain

\* pwd_ctx.needs_update(user.password)
needs_update(hashed_password) == hashed_password.scheme # "current"

\* is_valid_json(user.totp): json.loads(data), or False
is_valid_json(totp) == totp = "secret"

\* the condition of authenticate_totp's first require_condition
TotpConfigured(user) ==
    /\ user.present
    /\ user.has_totp
    /\ user.totp # "empty"
    /\ is_valid_json(user.totp)

\* _verify_totp as it would be if cache_verify were called whatever the
\* verification said
_verify_totp_AlwaysCaches(token, user, time) ==
    LET _last_counter == IF user.has_get_cache_verify
                            THEN user.totp_last_counter ELSE NoCounter
        err == TotpVerify(token, _last_counter, time)
    IN  [ err |-> err,
          got |-> user.has_get_cache_verify,
          last_counter |-> _last_counter,
          cached |-> user.has_cache_verify,
          counter |-> token.counter ]

\* Beskar._verify_totp(token, user) at the given instant: the exception of
\* the verification (or "ok"), whether get_cache_verify was called and the
\* last_counter used, whether cache_verify was called and with which counter
_verify_totp(token, user, time) ==
    LET _last_counter == IF user.has_get_cache_verify
                            THEN user.totp_last_counter ELSE NoCounter
        err == TotpVerify(token, _last_counter, time)
    IN  [ err |-> err,
          got |-> user.has_get_cache_verify,
          last_counter |-> _last_counter,
          cached |-> err = "ok" /\ user.has_cache_verify,
          counter |-> IF err = "ok" THEN token.counter ELSE NoCounter ]

\* no call of _verify_totp
NotVerified ==
    [ err |-> "ok", got |-> FALSE, last_counter |-> NoCounter,
      cached |-> FALSE, counter |-> NoCounter ]

\* TotpStep as it would be if the code were verified before the second
\* factor configuration is looked at
TotpStep_VerifyFirst(user, token, time) ==
    LET v == _verify_totp(token, user, time)
    IN  IF token.kind = "none"
            THEN [ err |-> "AuthenticationError", configured |-> TRUE,
                   verified |-> FALSE, v |-> NotVerified ]
        ELSE IF v.err # "ok"
            THEN [ err |-> v.err, configured |-> TRUE, verified |-> TRUE,
                   v |-> v ]
        ELSE IF ~TotpConfigured(user)
            THEN [ err |-> "AuthenticationError", configured |-> FALSE,
                   verified |-> TRUE, v |-> v ]
        ELSE [ err |-> "ok", configured |-> TRUE, verified |-> TRUE,
               v |-> v ]

\* the two require_condition calls of authenticate_totp on the looked-up
\* user: the exception (or "ok"), whether the configuration check passed,
\* whether _verify_totp was called, and what it did
TotpStep(user, token, time) ==
    IF ~TotpConfigured(user)
        THEN [ err |-> "AuthenticationError", configured |-> FALSE,
               verified |-> FALSE, v |-> NotVerified ]
    ELSE IF token.kind = "none"
        THEN [ err |-> "AuthenticationError", configured |-> TRUE,
               verified |-> FALSE, v |-> NotVerified ]
    ELSE LET v == _verify_totp(token, user, time)
         IN  [ err |-> v.err, configured |-> TRUE, verified |-> TRUE,
               v |-> v ]

\* the user store after user.cache_verify(counter=..., seconds=...)
CacheVerify(store, username, step) ==
    IF step.v.cached
        THEN [store EXCEPT ![username].totp_last_counter = step.v.counter]
        ELSE store

\* the outcome of authenticate / authenticate_totp: the exception (or "ok"),
\* the arguments, the user returned, whether the password was verified,
\* and what the second-factor step did
AuthOutcome(op, err, username, password, token, user, pw_verified, step) ==
    [ op |-> op, err |-> err, username |-> username, password |-> password,
      token |-> token, user |-> user, pw_verified |-> pw_verified,
      configured |-> step.configured, verified |-> step.verified,
      got |-> step.v.got, last_counter |-> step.v.last_counter,
      cached |-> step.v.cached, counter |-> step.v.counter,
      moment |-> now ]

\* no second-factor step was taken
NoTotpStep ==
    [ err |-> "ok", configured |-> FALSE, verified |-> FALSE,
      v |-> NotVerified ]

\* Beskar.authenticate_totp(username, token)
AuthenticateTotp(username, token) ==
    LET user == lookup(users, username)
        step == TotpStep(user, token, now)
        store == CacheVerify(users, username, step)
    IN  /\ users' = store
        /\ res' = AuthOutcome("authenticate_totp", step.err, username, "",
                              token,
                              IF step.err = "ok" THEN store[username]
                                                 ELSE NoAuthUser,
                              FALSE, step)
        /\ UNCHANGED << now, token_provider, totp_enforce, hash_autoupdate,
                        hash_autotest, calls, request,
                    token_places, paseto_key, config, extensions, source_text, blacklist, nextJti, held, origin,
                        data,
                    issued >>

\* HashStageError as it would be if hash_autotest were looked at before
\* hash_autoupdate
HashStageError_TestFirst(user) ==
    IF hash_autotest /\ needs_update(user.password) THEN "LegacyScheme"
    ELSE "ok"

\* the hash stage of authenticate: verify_and_update(user, password) when
\* hash_autoupdate, verify_and_update(user) when hash_autotest
HashStageError(user) ==
    IF hash_autoupdate THEN "ok"
    ELSE IF hash_autotest /\ needs_update(user.password) THEN "LegacyScheme"
    ELSE "ok"

\* the user authenticate returns: with hash_autoupdate its password is
\* rehashed with the current scheme
HashStageUser(user) ==
    IF hash_autoupdate /\ needs_update(user.password)
        THEN [user EXCEPT !.password = Hash(user.password.plain, "current")]
        ELSE user

\* AuthenticateError as it would be if the second factor were looked at
\* before the password
AuthenticateError_TotpFirst(user, password, token, step) ==
    IF ~user.present THEN "AuthenticationError"
    ELSE IF (user.has_totp \/ token.kind # "none") /\ token.kind # "none"
             /\ step.err # "ok"
        THEN step.err
    ELSE IF (user.has_totp \/ token.kind # "none") /\ token.kind = "none"
             /\ totp_enforce
        THEN "TOTPRequired"
    ELSE IF ~_verify_password(password, user.password)
        THEN "AuthenticationError"
    ELSE HashStageError(user)

\* AuthenticateError as it would be if the password were not verified
AuthenticateError_NoPassword(user, password, token, step) ==
    IF ~user.present THEN "AuthenticationError"
    ELSE IF (user.has_totp \/ token.kind # "none") /\ token.kind # "none"
             /\ step.err # "ok"
        THEN step.err
    ELSE IF (user.has_totp \/ token.kind # "none") /\ token.kind = "none"
             /\ totp_enforce
        THEN "TOTPRequired"
    ELSE HashStageError(user)

\* the exception authenticate raises, or "ok"; `step` is what
\* authenticate_totp does if it is reached
AuthenticateError(user, password, token, step) ==
    IF ~user.present \/ ~_verify_password(password, user.password)
        THEN "AuthenticationError"
    ELSE IF (user.has_totp \/ token.kind # "none") /\ token.kind # "none"
             /\ step.err # "ok"
        THEN step.err
    ELSE IF (user.has_totp \/ token.kind # "none") /\ token.kind = "none"
             /\ totp_enforce
        THEN "TOTPRequired"
    ELSE HashStageError(user)

\* RoutesToTotp as it would be if the second factor were taken up before
\* the password is verified
RoutesToTotp_BeforePassword(user, password, token) ==
    user.present /\ token.kind # "none"

\* whether authenticate reaches `if token: user = await
\* self.authenticate_totp(username, token)`: only past the require_condition
\* on the looked-up user and the password
RoutesToTotp(user, password, token) ==
    /\ user.present
    /\ _verify_password(password, user.password)
    /\ token.kind # "none"

\* how many times authenticate_totp calls user_class.lookup: once when it
\* is given a username (isinstance(username, str)), never when it is given
\* a user object
TotpLookups(given) == IF given = "str" THEN 1 ELSE 0

\* how many times one authenticate call calls user_class.lookup: once
\* itself, and again inside authenticate_totp, which it calls with the
\* username string (authenticate_totp(username, token)), not with the user
\* it has looked up
AuthenticateLookups(user, password, token) ==
    1 + IF RoutesToTotp(user, password, token) THEN TotpLookups("str")
                                                ELSE 0

\* Beskar.authenticate(username, password, token)
Authenticate(username, password, token) ==
    LET user == lookup(users, username)
        pw_verified == user.present
        routed == RoutesToTotp(user, password, token)
        step == IF routed THEN TotpStep(user, token, now) ELSE NoTotpStep
        store == IF routed THEN CacheVerify(users, username, step)
                           ELSE users
        err == AuthenticateError(user, password, token,
                                 TotpStep(user, token, now))
    IN  /\ users' = store
        /\ res' = AuthOutcome("authenticate", err, username, password,
                              token,
                              IF err = "ok"
                                  THEN HashStageUser(store[username])
                                  ELSE NoAuthUser,
                              pw_verified, step)
                   @@ [ lookups |-> AuthenticateLookups(user, password,
                                                        token) ]
        /\ UNCHANGED << now, token_provider, totp_enforce, hash_autoupdate,
                        hash_autotest, calls, request,
                    token_places, paseto_key, config, extensions, source_text, blacklist, nextJti, held, origin,
                        data,
                    issued >>


(* --------------------------- verify_and_update ------------------------ *)
\* password=None (or any empty plaintext): "if password:" is false
NoPassword == ""

\* pwd_ctx.verify_and_update(password, hashed): whether the password
\* verifies, and the hash of it under the default scheme
PwdVerifyAndUpdate(password, hashed) ==
    [ rv |-> _verify_password(password, hashed),
      updated |-> Hash(password, "current") ]

\* VerifyAndUpdateError as it would be if the plaintext were not verified
\* before the hash is replaced
VerifyAndUpdateError_Unverified(user, password) ==
    IF ~needs_update(user.password) THEN "ok"
    ELSE IF password = NoPassword THEN "LegacyScheme"
    ELSE "ok"

\* the exception Beskar.verify_and_update raises, or "ok"
VerifyAndUpdateError(user, password) ==
    IF ~needs_update(user.password) THEN "ok"
    ELSE IF password = NoPassword THEN "LegacyScheme"
    ELSE IF ~PwdVerifyAndUpdate(password, user.password).rv
        THEN "AuthenticationError"
    ELSE "ok"

\* the user object as Beskar.verify_and_update leaves it
VerifyAndUpdateUser(user, password) ==
    IF needs_update(user.password)
       /\ VerifyAndUpdateError(user, password) = "ok"
        THEN [ user EXCEPT
                 !.password = PwdVerifyAndUpdate(password,
                                                 user.password).updated ]
        ELSE user

\* Beskar.verify_and_update(user, password) on a stored user; the store is
\* for the caller to update
VerifyAndUpdate(username, password) ==
    LET user == users[username]
        err == VerifyAndUpdateError(user, password)
        after == VerifyAndUpdateUser(user, password)
    IN  /\ res' = AuthOutcome("verify_and_update", err, username, password,
                              NoTotpToken,
                              IF err = "ok" THEN after ELSE NoAuthUser,
                              needs_update(user.password)
                                  /\ password # NoPassword,
                              NoTotpStep)
                  @@ [ before |-> user, after |-> after ]
        /\ UNCHANGED << now, token_provider, totp_enforce, hash_autoupdate,
                        hash_autotest, users, blacklist, nextJti, held,
                        origin, data, calls, request, token_places,
                        paseto_key, config, extensions, source_text,
                    issued >>

\* the plaintexts handed to verify_and_update
Plaintexts == { NoPassword, "abides", "is_undudelike" }

DoVerifyAndUpdate ==
    \E username \in DOMAIN users, password \in Plaintexts :
        VerifyAndUpdate(username, password)

(* --------------------------- inputs and runs -------------------------- *)
\* the lifespan overrides a caller passes: None or a duration
Overrides == {NoOverride} \cup (0 .. MaxLifespan)

\* custom claims whose names are not reserved: none, or one
PlainCustom == { EmptyDict, [k \in {"duder"} |-> "brief"] }

\* custom claims with a reserved name
CollidingCustom ==
    { [k \in {"exp"} |-> MaxTime],
      [k \in {"duder", "jti"} |-> IF k = "jti" THEN 0 ELSE "brief"] }

\* the role names of the stored principal
RoleChoices == { << "admin", "operator" >> }

\* the principal stores: one user of a validating class or of a plain one
StoreChoices ==
    { [i \in UserIds |-> UserObject(i, r, v, TRUE)] :
        r \in RoleChoices, v \in BOOLEAN }

\* the users a caller can pass to encode_token: a stored one, a stored one
\* whose validation method now fails, or None
UserArgs ==
    { users[i] : i \in UserIds }
    \cup { [users[i] EXCEPT !.is_active = FALSE] : i \in UserIds }
    \cup { NoUser }

\* the purpose flags of encode_token
TagChoices == { "none", "registration", "reset" }

Init ==
    /\ now = 0
    /\ token_provider \in { "jwt", "paseto" }
    /\ totp_enforce = DEFAULT_TOTP_ENFORCE
    /\ hash_autoupdate = DEFAULT_HASH_AUTOUPDATE
    /\ hash_autotest = DEFAULT_HASH_AUTOTEST
    /\ users \in StoreChoices
    /\ issued = NoneIssued
    /\ calls = NoCalls
    /\ request = NoRequest
    /\ token_places = DEFAULT_TOKEN_PLACES
    /\ paseto_key = NoKeys
    /\ config = EmptyDict
    /\ extensions = EmptyDict
    /\ source_text = << >>
    /\ blacklist = {}
    /\ nextJti = 1
    /\ held = NoToken
    /\ origin = NoOrigin
    /\ data = EmptyDict
    /\ res = Idle

\* encode_token for a stored user; the caller obtains one token and from
\* then on presents and refreshes it
DoEncode ==
    /\ held = NoToken
    /\ \E i \in UserIds, oa \in Overrides, orr \in Overrides,
          tags \in TagChoices, custom \in PlainCustom :
           EncodeToken(users[i], oa, orr, FALSE, tags = "registration",
                       tags = "reset", custom)

DoEncodeEternal ==
    /\ held = NoToken
    /\ \E i \in UserIds, custom \in PlainCustom :
           EncodeEternalToken(users[i], custom)

DoExtract == \E access_type \in AccessType : ExtractToken(access_type)

DoRefresh ==
    \E oa \in Overrides, drift \in 0 .. MaxDrift : RefreshToken(oa, drift)

Next == DoEncode \/ DoEncodeEternal \/ DoExtract \/ DoRefresh \/ Tick

Spec == Init /\ [][Next]_vars

(* ------------------- encode_token on every argument ------------------- *)
\* one call of encode_token per run, at any clock reading
InitEncode ==
    /\ now \in 0 .. MaxTime
    /\ token_provider \in { "jwt", "paseto" }
    /\ totp_enforce = DEFAULT_TOTP_ENFORCE
    /\ hash_autoupdate = DEFAULT_HASH_AUTOUPDATE
    /\ hash_autotest = DEFAULT_HASH_AUTOTEST
    /\ users \in StoreChoices
    /\ issued = NoneIssued
    /\ calls = NoCalls
    /\ request = NoRequest
    /\ token_places = DEFAULT_TOKEN_PLACES
    /\ paseto_key = NoKeys
    /\ config = EmptyDict
    /\ extensions = EmptyDict
    /\ source_text = << >>
    /\ blacklist = {}
    /\ nextJti = 1
    /\ held = NoToken
    /\ origin = NoOrigin
    /\ data = EmptyDict
    /\ res = Idle

DoEncodeAny ==
    /\ res = Idle
    /\ \E user \in UserArgs, oa \in Overrides, orr \in Overrides,
          bypass \in BOOLEAN, tags \in TagChoices,
          custom \in PlainCustom \cup CollidingCustom :
           EncodeToken(user, oa, orr, bypass, tags = "registration",
                       tags = "reset", custom)

DoEncodeEternalAny ==
    /\ res = Idle
    /\ \E user \in UserArgs, custom \in PlainCustom \cup CollidingCustom :
           EncodeEternalToken(user, custom)

NextEncode == DoEncodeAny \/ DoEncodeEternalAny

SpecEncode == InitEncode /\ [][NextEncode]_vars

(* ------------- refresh_token while the user store changes ------------- *)
\* the custom claims of the token that is refreshed: none, one or two
RefreshCustom ==
    { EmptyDict,
      [k \in {"duder"} |-> "brief"],
      [k \in {"duder", "el_duderino"} |->
          IF k = "duder" THEN "brief" ELSE "not brief"] }

\* the refresh lifespans the token was issued with
RefreshLifespans == Overrides \cup { MaxTime }

\* encode_token(user, **custom_claims) has just returned at time 0
InitRefresh ==
    /\ now = 0
    /\ token_provider \in { "jwt", "paseto" }
    /\ totp_enforce = DEFAULT_TOTP_ENFORCE
    /\ hash_autoupdate = DEFAULT_HASH_AUTOUPDATE
    /\ hash_autotest = DEFAULT_HASH_AUTOTEST
    /\ users \in StoreChoices
    /\ issued = NoneIssued
    /\ calls = NoCalls
    /\ request = NoRequest
    /\ token_places = DEFAULT_TOKEN_PLACES
    /\ paseto_key = NoKeys
    /\ config = EmptyDict
    /\ extensions = EmptyDict
    /\ source_text = << >>
    /\ blacklist = {}
    /\ nextJti = 2
    /\ \E i \in UserIds, oa \in Overrides, orr \in RefreshLifespans,
          custom \in RefreshCustom :
           LET payload_parts ==
                   EncodePayload(users[i], 0, oa, orr, FALSE, FALSE,
                                 custom, 1)
           IN  /\ held = EncodeWire(token_provider, payload_parts,
                                    payload_parts["exp"], 0)
               /\ origin = [ user |-> users[i], custom |-> custom,
                             defaults |-> oa = NoOverride
                                          /\ orr = NoOverride,
                             tagged |-> FALSE, fresh |-> TRUE ]
    /\ data = EmptyDict
    /\ res = Idle

\* the application deletes the user (await bunny.delete())
DeleteUser ==
    /\ \E i \in DOMAIN users :
           users' = [j \in (DOMAIN users) \ {i} |-> users[j]]
    /\ res' = Idle
    /\ UNCHANGED << now, token_provider, totp_enforce,
                    hash_autoupdate, hash_autotest, calls, request,
                    token_places, paseto_key, config, extensions, source_text, blacklist, nextJti, held, origin,
                    data,
                    issued >>

\* the application revokes the user (brandt.is_active = False)
DeactivateUser ==
    /\ \E i \in DOMAIN users :
           /\ users[i].is_active
           /\ users' = [users EXCEPT ![i].is_active = FALSE]
    /\ res' = Idle
    /\ UNCHANGED << now, token_provider, totp_enforce,
                    hash_autoupdate, hash_autotest, calls, request,
                    token_places, paseto_key, config, extensions, source_text, blacklist, nextJti, held, origin,
                    data,
                    issued >>

NextRefresh == DoRefresh \/ DeleteUser \/ DeactivateUser \/ Tick

SpecRefresh == InitRefresh /\ [][NextRefresh]_vars

(* -------------------- authenticate / authenticate_totp ---------------- *)
\* what user.totp may hold
TotpStates == { "empty", "notjson", "falsyjson", "secret" }

\* the stored hashes of the password "abides"
StoredHashes == { Hash("abides", "current"), Hash("abides", "legacy") }

\* the stores: the_dude, of a class with or without a totp attribute and
\* with or without each cache hook
AuthStores ==
    { [n \in {"the_dude"} |-> AuthUser(n, h, FALSE, "empty", FALSE, FALSE)] :
        h \in StoredHashes }
    \cup
    { [n \in {"the_dude"} |-> AuthUser(n, h, TRUE, t, g, c)] :
        h \in StoredHashes, t \in TotpStates, g \in BOOLEAN, c \in BOOLEAN }

\* the (hash_autoupdate, hash_autotest) settings
HashModes ==
    { << FALSE, FALSE >>, << TRUE, FALSE >>, << FALSE, TRUE >>,
      << TRUE, TRUE >> }

\* the username / password pairs presented
Credentials ==
    { << "the_dude", "abides" >>, << "the_dude", "is_undudelike" >>,
      << "the_bro", "abides" >> }

\* the tokens presented at an instant: none, a malformed or a wrong code,
\* or the code of a counter around the current one
TotpTokens(time) ==
    { NoTotpToken, MalformedCode, WrongCode }
    \cup { TotpCode(k) :
             k \in Max(0, time_to_counter(time) - 2)
                   .. (time_to_counter(time) + 1) }

InitAuth ==
    /\ now = 0
    /\ token_provider = "jwt"
    /\ totp_enforce \in BOOLEAN
    /\ \E mode \in HashModes :
           /\ hash_autoupdate = mode[1]
           /\ hash_autotest = mode[2]
    /\ users \in AuthStores
    /\ issued = NoneIssued
    /\ calls = NoCalls
    /\ request = NoRequest
    /\ token_places = DEFAULT_TOKEN_PLACES
    /\ paseto_key = NoKeys
    /\ config = EmptyDict
    /\ extensions = EmptyDict
    /\ source_text = << >>
    /\ blacklist = {}
    /\ nextJti = 1
    /\ held = NoToken
    /\ origin = NoOrigin
    /\ data = EmptyDict
    /\ res = Idle

DoAuthenticate ==
    \E c \in Credentials, token \in TotpTokens(now) :
        Authenticate(c[1], c[2], token)

DoAuthenticateTotp ==
    \E username \in { "the_dude", "the_bro" }, token \in TotpTokens(now) :
        AuthenticateTotp(username, token)

NextAuth ==
    DoAuthenticate \/ DoAuthenticateTotp \/ DoVerifyAndUpdate \/ Tick

SpecAuth == InitAuth /\ [][NextAuth]_vars

(* ---------------- the validator on its own claim sets ----------------- *)
\* the claim names the validator looks at
ValidatorKeys ==
    { "jti", "id", "exp", REFRESH_EXPIRATION_CLAIM,
      IS_REGISTRATION_TOKEN_CLAIM, IS_RESET_TOKEN_CLAIM }

\* a claim set with the given keys, jti, exp and refresh expiry
ClaimSet(keys, jti, exp, rf_exp) ==
    [k \in keys |->
        CASE k = "jti" -> jti
          [] k = "id" -> 1
          [] k = "exp" -> exp
          [] k = REFRESH_EXPIRATION_CLAIM -> rf_exp
          [] OTHER -> TRUE]

\* the claim sets handed to the validator: any subset of the keys, expiry
\* instants strictly inside the clock's range, in either order
ClaimSets ==
    { ClaimSet(keys, jti, exp, rf_exp) :
        keys \in SUBSET ValidatorKeys,
        jti \in 1 .. MaxJti,
        exp \in 1 .. (MaxTime - 2),
        rf_exp \in 1 .. (MaxTime - 2) }

InitValidate ==
    /\ now = 0
    /\ token_provider = "jwt"
    /\ totp_enforce = DEFAULT_TOTP_ENFORCE
    /\ hash_autoupdate = DEFAULT_HASH_AUTOUPDATE
    /\ hash_autotest = DEFAULT_HASH_AUTOTEST
    /\ users \in { [i \in ids |-> UserObject(i, r, FALSE, TRUE)] :
                      r \in RoleChoices, ids \in { UserIds, {} } }
    /\ issued = NoneIssued
    /\ calls = NoCalls
    /\ request = NoRequest
    /\ token_places = DEFAULT_TOKEN_PLACES
    /\ paseto_key = NoKeys
    /\ config = EmptyDict
    /\ extensions = EmptyDict
    /\ source_text = << >>
    /\ blacklist \in { {}, {1} }
    /\ nextJti = 1
    /\ held = NoToken
    /\ origin = NoOrigin
    /\ data \in ClaimSets
    /\ res = Idle

DoValidate == \E access_type \in AccessType : ValidateTokenData(access_type)

\* the claim set arrives as a token signed with the application's key
DoGetUserFromRegistrationToken ==
    GetUserFromRegistrationToken(JwtEncode(data))

DoValidateResetToken == ValidateResetToken(JwtEncode(data))

NextValidate ==
    \/ DoValidate
    \/ DoGetUserFromRegistrationToken
    \/ DoValidateResetToken
    \/ Tick

SpecValidate == InitValidate /\ [][NextValidate]_vars


(* ======================= properties of the validator ================== *)
\* the claim set passes the five common rules
PassesCommon(d, bl) == CommonRules(d, bl) = "ok"

\* the claim set carries neither purpose tag
Untagged(d) ==
    /\ IS_REGISTRATION_TOKEN_CLAIM \notin DOMAIN d
    /\ IS_RESET_TOKEN_CLAIM \notin DOMAIN d

\* the validator has just run on `data` for the access type
Validated(access_type) ==
    res.op = "validate" /\ res.access_type = access_type

\* C2: for a token without purpose tags, validation for purpose refresh
\* raises EarlyRefreshError whenever now <= exp (even if the refresh expiry
\* has passed too, the early check coming first), ExpiredRefreshError
\* whenever now > exp and now > refresh expiry, and succeeds exactly when
\* exp < now <= refresh expiry.
C2_RefreshWindow ==
    (Validated("refresh") /\ PassesCommon(data, blacklist) /\ Untagged(data))
    => /\ (res.moment <= data["exp"] => res.err = "EarlyRefreshError")
       /\ (res.moment > data[REFRESH_EXPIRATION_CLAIM]
            => res.err = IF res.moment <= data["exp"]
                            THEN "EarlyRefreshError"
                            ELSE "ExpiredRefreshError")
       /\ (res.err = "ok"
            <=> /\ data["exp"] < res.moment
                /\ res.moment <= data[REFRESH_EXPIRATION_CLAIM])

\* C2 witness: a refresh attempted exactly at exp is still too early
C2_Witness ==
    /\ Validated("refresh") /\ PassesCommon(data, blacklist)
    /\ Untagged(data)
    /\ res.moment = data["exp"]
    /\ data["exp"] < data[REFRESH_EXPIRATION_CLAIM]
    /\ res.err = "EarlyRefreshError"

\* C4: for purpose access, validation raises MisusedRegistrationToken if the
\* registration tag is present, else MisusedResetToken if the reset tag is
\* present, else ExpiredAccessError if now > exp, and succeeds exactly when
\* both tags are absent and now <= exp.
C4_AccessRules ==
    (Validated("access") /\ PassesCommon(data, blacklist))
    => /\ res.err =
            IF IS_REGISTRATION_TOKEN_CLAIM \in DOMAIN data
                THEN "MisusedRegistrationToken"
            ELSE IF IS_RESET_TOKEN_CLAIM \in DOMAIN data
                THEN "MisusedResetToken"
            ELSE IF res.moment > data["exp"] THEN "ExpiredAccessError"
            ELSE "ok"
       /\ (res.err = "ok"
            <=> Untagged(data) /\ res.moment <= data["exp"])

\* C4 witness: access at the boundary now = exp is accepted
C4_Witness ==
    /\ Validated("access") /\ PassesCommon(data, blacklist)
    /\ Untagged(data)
    /\ res.moment = data["exp"]
    /\ res.err = "ok"

\* the exceptions of the common rules, in the order the rules are applied
MissingClaimErrors ==
    { "MissingClaimError: jti", "MissingClaimError: id",
      "MissingClaimError: exp", "MissingClaimError: rf_exp" }

\* C6: for every claim set and every access type the validator raises at
\* the first violated common rule, in the order jti missing, jti
\* blacklisted, id missing, exp missing, refresh expiry missing; an
\* exception of a purpose rule (or success) is possible only after all five
\* have passed.
C6_CommonRuleOrder ==
    (res.op = "validate")
    => /\ res.err =
            IF "jti" \notin DOMAIN data THEN "MissingClaimError: jti"
            ELSE IF data["jti"] \in blacklist THEN "BlacklistedError"
            ELSE IF "id" \notin DOMAIN data THEN "MissingClaimError: id"
            ELSE IF "exp" \notin DOMAIN data THEN "MissingClaimError: exp"
            ELSE IF REFRESH_EXPIRATION_CLAIM \notin DOMAIN data
                THEN "MissingClaimError: rf_exp"
            ELSE PurposeRules(data, res.access_type, res.moment)
       /\ (res.err \notin (MissingClaimErrors \cup {"BlacklistedError"})
            => /\ {"jti", "id", "exp", REFRESH_EXPIRATION_CLAIM}
                    \subseteq DOMAIN data
               /\ data["jti"] \notin blacklist)

\* C6 witness: a blacklisted jti on a claim set without id and with a
\* purpose tag is reported as blacklisted
C6_Witness ==
    /\ res.op = "validate"
    /\ "jti" \in DOMAIN data /\ data["jti"] \in blacklist
    /\ "id" \notin DOMAIN data
    /\ IS_RESET_TOKEN_CLAIM \in DOMAIN data
    /\ res.err = "BlacklistedError"

\* the claim set validates now for the access type
ValidNow(access_type) ==
    _validate_token_data(data, access_type, now, blacklist) = "ok"

\* the phase the validator puts an untagged claim set in: 1 access-valid,
\* 2 refresh-valid, 3 fully expired, 0 if access and refresh both validate
PhaseNow ==
    IF ValidNow("access") /\ ~ValidNow("refresh") THEN 1
    ELSE IF ~ValidNow("access") /\ ValidNow("refresh") THEN 2
    ELSE IF ~ValidNow("access") /\ ~ValidNow("refresh") THEN 3
    ELSE 0

\* the claim set C7 is about
C7_Token ==
    /\ PassesCommon(data, blacklist)
    /\ Untagged(data)
    /\ data["exp"] <= data[REFRESH_EXPIRATION_CLAIM]

\* C7: for an untagged, non-blacklisted token with exp <= refresh expiry,
\* at every instant exactly one of the phases access-valid (now <= exp),
\* refresh-valid (exp < now <= refresh expiry), fully expired holds, and as
\* the clock advances the phase never goes back to an earlier one.
C7_PhasesInOrder ==
    [][ C7_Token
        => /\ PhaseNow = ( IF now <= data["exp"] THEN 1
                           ELSE IF now <= data[REFRESH_EXPIRATION_CLAIM]
                               THEN 2
                           ELSE 3 )
           /\ PhaseNow' >= PhaseNow ]_vars

\* C7 witness: a token with a non-empty refresh window has been refused for
\* refresh after the window closed
C7_Witness ==
    /\ C7_Token
    /\ data["exp"] < data[REFRESH_EXPIRATION_CLAIM]
    /\ Validated("refresh")
    /\ res.err = "ExpiredRefreshError"
    /\ PhaseNow = 3


(* ================= properties of encode, extract, refresh ============= *)
\* C5: a token carrying the registration tag or the reset tag is never
\* accepted by extract_token for purpose access or refresh, nor by
\* refresh_token, at any time: the outcome is always
\* MisusedRegistrationToken / MisusedResetToken, never a timing error, never
\* a token or a claim set.
C5_TaggedNeverAccessOrRefresh ==
    ( /\ res.op \in {"extract", "refresh"}
      /\ res.access_type \in {"access", "refresh"}
      /\ ~Untagged(res.decoded) )
    => /\ res.err = IF IS_REGISTRATION_TOKEN_CLAIM \in DOMAIN res.decoded
                        THEN "MisusedRegistrationToken"
                        ELSE "MisusedResetToken"
       /\ res.token = NoToken
       /\ res.claims = EmptyDict
       /\ held = res.input

\* C5 witness: refresh_token refuses a registration token inside what would
\* be its refresh window
C5_Witness ==
    /\ res.op = "refresh"
    /\ IS_REGISTRATION_TOKEN_CLAIM \in DOMAIN res.decoded
    /\ res.decoded["exp"] < res.vmoment
    /\ res.vmoment <= res.decoded[REFRESH_EXPIRATION_CLAIM]
    /\ res.err = "MisusedRegistrationToken"

\* C8: under the default configuration, for a valid principal and custom
\* claims disjoint from the reserved keys, extract_token (purpose access) of
\* the token encode_token returned, performed no later than exp, succeeds and
\* returns the principal's identity as id, the comma-join of its role names
\* as rls, exactly the custom claims supplied, and iat < exp <= refresh
\* expiry.
C8_RoundTrip ==
    ( /\ res.op = "extract" /\ res.access_type = "access"
      /\ origin.fresh /\ origin.defaults /\ ~origin.tagged
      /\ res.moment <= res.decoded["exp"] )
    => /\ res.err = "ok"
       /\ res.claims["id"] = origin.user.identity
       /\ res.claims["rls"] = JoinComma(origin.user.rolenames)
       /\ CustomClaimsOf(res.claims) = origin.custom
       /\ res.claims["iat"] < res.claims["exp"]
       /\ res.claims["exp"] <= res.claims[REFRESH_EXPIRATION_CLAIM]

\* C8 witness: a PASETO token with a custom claim has been read back one
\* second after it was issued
C8_Witness ==
    /\ res.op = "extract" /\ res.access_type = "access"
    /\ origin.fresh /\ origin.defaults /\ ~origin.tagged
    /\ token_provider = "paseto"
    /\ origin.custom # EmptyDict
    /\ res.err = "ok"
    /\ res.moment = res.claims["iat"] + 1
    /\ res.claims["rls"] = "admin,operator"

\* C10: decoding checks no expiry; only the validator does, for the purpose
\* asked. An untagged token presented after exp and not after its refresh
\* expiry is decoded, fails extract_token for purpose access with
\* ExpiredAccessError and succeeds for purpose refresh, under either
\* provider; no token this guard issued is ever refused by the decoder.
C10_ExpiryOnlyInValidator ==
    (res.op = "extract")
    => /\ res.err # "InvalidTokenHeader"
       /\ DOMAIN res.decoded # {}
       /\ ( ( /\ Untagged(res.decoded)
              /\ res.decoded["exp"] < res.moment
              /\ res.moment <= res.decoded[REFRESH_EXPIRATION_CLAIM] )
            => /\ (res.access_type = "access"
                    => res.err = "ExpiredAccessError")
               /\ (res.access_type = "refresh"
                    => res.err = "ok" /\ res.claims = res.decoded) )

\* C10 witness: a PASETO token past its exp has been extracted for refresh
C10_Witness ==
    /\ res.op = "extract" /\ res.access_type = "refresh"
    /\ token_provider = "paseto"
    /\ res.decoded["exp"] < res.moment
    /\ res.err = "ok"

\* the claims of the token the last operation returned, as the configured
\* codec reads them back
IssuedClaims == DecodeWire(token_provider, res.token)

\* C1: every token encode_token issues carries iat = now, refresh expiry =
\* now + refresh lifespan and exp = min(now + access lifespan, refresh
\* expiry), for the lifespans in force (override or default) and under
\* either provider; so exp <= refresh expiry, and exp = refresh expiry when
\* the access lifespan exceeds the refresh lifespan.
C1_IssuedExpiries ==
    (res.op = "encode" /\ res.err = "ok")
    => LET access == Lifespan(res.oa, access_lifespan)
           refresh == Lifespan(res.orr, refresh_lifespan)
       IN  /\ IssuedClaims["iat"] = res.moment
           /\ IssuedClaims[REFRESH_EXPIRATION_CLAIM] = res.moment + refresh
           /\ IssuedClaims["exp"] =
                Min(res.moment + access,
                    IssuedClaims[REFRESH_EXPIRATION_CLAIM])
           /\ IssuedClaims["exp"] <= IssuedClaims[REFRESH_EXPIRATION_CLAIM]
           /\ (access > refresh
                => IssuedClaims["exp"] = res.moment + refresh)

\* C9: encode_token called with a custom claim whose name is reserved raises
\* ClaimCollisionError before anything else: the principal's validation
\* method is not called, the encode hook is not invoked, no jti is drawn and
\* no token is produced, whatever the principal and the bypass flag.
C9_CollisionFirst ==
    (res.op = "encode" /\ Collides(res.args.custom))
    => /\ res.err = "ClaimCollisionError"
       /\ ~res.checked
       /\ ~res.hooked
       /\ ~res.drawn
       /\ nextJti = 1
       /\ res.token = NoToken
       /\ res.claims = EmptyDict
       /\ held = NoToken

\* C9 witness: the colliding call was made without bypass for a principal
\* whose validation method fails
C9_Witness ==
    /\ res.op = "encode" /\ Collides(res.args.custom)
    /\ res.args.user.present /\ res.args.user.has_validate
    /\ ~res.args.user.is_active
    /\ ~res.args.bypass
    /\ res.err = "ClaimCollisionError"

\* C3: a successful refresh_token returns a token with the jti and the
\* refresh expiry of the old one, iat = the refresh moment and exp =
\* min(refresh moment + access lifespan (override or default), old refresh
\* expiry); the old token is as it was.
C3_RefreshedClaims ==
    (res.op = "refresh" /\ res.err = "ok")
    => /\ IssuedClaims["jti"] = res.decoded["jti"]
       /\ IssuedClaims[REFRESH_EXPIRATION_CLAIM]
            = res.decoded[REFRESH_EXPIRATION_CLAIM]
       /\ IssuedClaims["iat"] = res.moment
       /\ IssuedClaims["exp"] =
            Min(res.moment + Lifespan(res.oa, access_lifespan),
                res.decoded[REFRESH_EXPIRATION_CLAIM])
       /\ DecodeWire(token_provider, res.input) = res.decoded


(* ====================== properties of refresh_token =================== *)
\* the token handed to the last refresh is inside its refresh window at the
\* instant the validator read the clock
InRefreshWindow ==
    /\ res.decoded["exp"] < res.vmoment
    /\ res.vmoment <= res.decoded[REFRESH_EXPIRATION_CLAIM]

\* the principal the store returns for the id of the refreshed token
RefreshedUser == identify(users, res.decoded["id"])

\* C11: refresh_token validates the old token for purpose refresh first: a
\* token outside its refresh window fails with the window's error whatever
\* the state of the principal, whose validity predicate is then not called.
\* Only for a token inside its window is the principal re-resolved by the
\* token's id: if identify returns nothing the refresh fails with
\* MissingUserError, if the validity predicate is falsy with
\* InvalidUserError, and in both cases the refresh hook is not invoked, no
\* token is returned and the caller still holds the old one.
C11_RefreshChecksUserAfterToken ==
    (res.op = "refresh") =>
        /\ ~InRefreshWindow =>
              /\ res.err = (IF res.vmoment <= res.decoded["exp"]
                               THEN "EarlyRefreshError"
                               ELSE "ExpiredRefreshError")
              /\ ~res.checked
        /\ (InRefreshWindow /\ ~RefreshedUser.present) =>
              /\ res.err = "MissingUserError"
              /\ ~res.checked
        /\ (InRefreshWindow /\ RefreshedUser.present
             /\ RefreshedUser.has_validate /\ ~RefreshedUser.is_active) =>
              /\ res.err = "InvalidUserError"
              /\ res.checked
        /\ (InRefreshWindow /\ RefreshedUser.present
             /\ (RefreshedUser.has_validate => RefreshedUser.is_active)) =>
              res.err = "ok"
        /\ (res.err # "ok") =>
              /\ ~res.hooked
              /\ res.token = NoToken
              /\ held = res.input

\* a refresh inside the window was refused because the principal had been
\* revoked: its validity predicate was called and returned a falsy value
C11_Witness ==
    /\ res.op = "refresh"
    /\ InRefreshWindow
    /\ res.err = "InvalidUserError"
    /\ res.checked
    /\ ~res.hooked
    /\ res.token = NoToken

\* C12: a refreshed token carries every custom (non-reserved) claim of the
\* old token with its value and no other custom claim; so after any number
\* of refreshes the held token still has exactly the custom claims the
\* first token was encoded with.
C12_CustomClaimsCarried ==
    /\ (res.op = "refresh" /\ res.err = "ok") =>
          /\ CustomClaimsOf(DecodeWire(token_provider, res.token))
                = CustomClaimsOf(res.decoded)
          /\ CustomClaimsOf(res.claims) = CustomClaimsOf(res.decoded)
    /\ CustomClaimsOf(DecodeWire(token_provider, held)) = origin.custom

\* a token that is itself the product of a refresh (it was issued after
\* time 0) and carries two custom claims has been refreshed again
C12_Witness ==
    /\ res.op = "refresh"
    /\ res.err = "ok"
    /\ res.decoded["iat"] > 0
    /\ DOMAIN CustomClaimsOf(res.decoded) = {"duder", "el_duderino"}
    /\ DecodeWire(token_provider, res.token)["el_duderino"] = "not brief"

(* ================= properties of the user check in encode ============= *)
\* C13: for custom claims that do not collide, encode_token without
\* bypass_user_check issues a token only for a principal that is present and
\* whose validation method, if it has one, returns a truthy value: None
\* gives MissingUserError and a falsy predicate InvalidUserError, with no
\* token and no encode hook call; a principal without a validation method
\* passes; with bypass_user_check the validation method is not called at
\* all and a present principal gets its token whatever the method would say.
C13_EncodeChecksUser ==
    (res.op = "encode" /\ ~Collides(res.args.custom)) =>
        LET user == res.args.user
            bypass == res.args.bypass
        IN  /\ (~bypass /\ ~user.present) =>
                  /\ res.err = "MissingUserError"
                  /\ ~res.checked
            /\ (~bypass /\ user.present /\ user.has_validate
                 /\ ~user.is_active) =>
                  /\ res.err = "InvalidUserError"
                  /\ res.checked
            /\ (~bypass /\ user.present /\ ~user.has_validate) =>
                  /\ res.err = "ok"
                  /\ ~res.checked
            /\ (~bypass /\ user.present /\ user.has_validate
                 /\ user.is_active) =>
                  /\ res.err = "ok"
                  /\ res.checked
            /\ bypass =>
                  /\ ~res.checked
                  /\ user.present => res.err = "ok"
            /\ (res.err = "ok") <=> (res.token # NoToken)
            /\ (res.err = "ok") <=> res.hooked
            /\ (res.err # "ok") => (held = NoToken)

\* encode_token was refused for a principal whose validation method
\* returned a falsy value
C13_Witness ==
    /\ res.op = "encode"
    /\ ~Collides(res.args.custom)
    /\ ~res.args.bypass
    /\ res.args.user.present
    /\ res.err = "InvalidUserError"
    /\ res.checked
    /\ ~res.hooked
    /\ res.token = NoToken

(* ============ properties of registration and reset tokens ============= *)
\* the claim set carries the tag
HasTag(d, tag) == tag \in DOMAIN d

\* C14: for purpose register the validator tests, in this order, now <= exp
\* (else ExpiredAccessError), the registration tag present (else
\* InvalidRegistrationToken), the reset tag absent (else MisusedResetToken);
\* so an expired token without the registration tag gives
\* ExpiredAccessError. get_user_from_registration_token applies the same
\* rules and returns the principal only for an unexpired token with the
\* registration tag (and without the reset tag).
C14_RegisterRules ==
    LET expected(d) ==
            IF res.moment > d["exp"] THEN "ExpiredAccessError"
            ELSE IF ~HasTag(d, IS_REGISTRATION_TOKEN_CLAIM)
                THEN "InvalidRegistrationToken"
            ELSE IF HasTag(d, IS_RESET_TOKEN_CLAIM) THEN "MisusedResetToken"
            ELSE "ok"
    IN  /\ (Validated("register") /\ PassesCommon(data, blacklist)) =>
              res.err = expected(data)
        /\ (res.op = "get_user_from_registration_token") =>
              /\ (PassesCommon(res.decoded, blacklist)
                   /\ expected(res.decoded) # "ok") =>
                     res.err = expected(res.decoded)
              /\ (res.err = "ok") =>
                     /\ PassesCommon(res.decoded, blacklist)
                     /\ res.moment <= res.decoded["exp"]
                     /\ HasTag(res.decoded, IS_REGISTRATION_TOKEN_CLAIM)
                     /\ ~HasTag(res.decoded, IS_RESET_TOKEN_CLAIM)
                     /\ res.user.present
                     /\ res.user = users[res.decoded["id"]]
              /\ (PassesCommon(res.decoded, blacklist)
                   /\ expected(res.decoded) = "ok"
                   /\ res.decoded["id"] \in DOMAIN users) =>
                     res.err = "ok"
              /\ (res.err # "ok") => (res.user = NoUser)

\* get_user_from_registration_token was given an expired token that has no
\* registration tag, and raised ExpiredAccessError
C14_Witness ==
    /\ res.op = "get_user_from_registration_token"
    /\ PassesCommon(res.decoded, blacklist)
    /\ ~HasTag(res.decoded, IS_REGISTRATION_TOKEN_CLAIM)
    /\ res.moment > res.decoded["exp"]
    /\ res.err = "ExpiredAccessError"
    /\ res.user = NoUser

\* C15: for purpose reset the validator tests, in this order, the
\* registration tag absent (else MisusedRegistrationToken), now <= exp (else
\* ExpiredAccessError), the reset tag present (else InvalidResetToken); so
\* an unexpired ordinary access token gives InvalidResetToken.
\* validate_reset_token applies the same rules and returns the principal
\* only for an unexpired token with the reset tag and without the
\* registration tag.
C15_ResetRules ==
    LET expected(d) ==
            IF HasTag(d, IS_REGISTRATION_TOKEN_CLAIM)
                THEN "MisusedRegistrationToken"
            ELSE IF res.moment > d["exp"] THEN "ExpiredAccessError"
            ELSE IF ~HasTag(d, IS_RESET_TOKEN_CLAIM) THEN "InvalidResetToken"
            ELSE "ok"
    IN  /\ (Validated("reset") /\ PassesCommon(data, blacklist)) =>
              res.err = expected(data)
        /\ (res.op = "validate_reset_token") =>
              /\ (PassesCommon(res.decoded, blacklist)
                   /\ expected(res.decoded) # "ok") =>
                     res.err = expected(res.decoded)
              /\ (res.err = "ok") =>
                     /\ PassesCommon(res.decoded, blacklist)
                     /\ res.moment <= res.decoded["exp"]
                     /\ HasTag(res.decoded, IS_RESET_TOKEN_CLAIM)
                     /\ ~HasTag(res.decoded, IS_REGISTRATION_TOKEN_CLAIM)
                     /\ res.user.present
                     /\ res.user = users[res.decoded["id"]]
              /\ (PassesCommon(res.decoded, blacklist)
                   /\ expected(res.decoded) = "ok"
                   /\ res.decoded["id"] \in DOMAIN users) =>
                     res.err = "ok"
              /\ (res.err # "ok") => (res.user = NoUser)

\* validate_reset_token was given an unexpired ordinary access token and
\* raised InvalidResetToken
C15_Witness ==
    /\ res.op = "validate_reset_token"
    /\ PassesCommon(res.decoded, blacklist)
    /\ Untagged(res.decoded)
    /\ res.moment <= res.decoded["exp"]
    /\ res.err = "InvalidResetToken"
    /\ res.user = NoUser

(* ===================== properties of authentication =================== *)
\* the stored user the last authentication named, if any
NamedUser == lookup(users, res.username)

\* the password presented is the one the named user's hash was made from
PasswordRight ==
    NamedUser.present /\ res.password = NamedUser.password.plain

\* C16: authenticate returns a principal only if lookup finds the username
\* and the password verifies against the stored hash, and then it is that
\* principal; an unknown username and a wrong password both raise
\* AuthenticationError, return no principal and never reach the second
\* factor.
C16_AuthenticateNeedsPassword ==
    (res.op = "authenticate") =>
        /\ (res.err = "ok") =>
              /\ PasswordRight
              /\ res.user.present
              /\ res.user.username = res.username
        /\ ~PasswordRight =>
              /\ res.err = "AuthenticationError"
              /\ res.user = NoAuthUser
              /\ ~res.verified
              /\ ~res.cached
        /\ (res.err # "ok") => (res.user = NoAuthUser)

\* authenticate was called for a known user with a wrong password and a
\* code that would verify, and raised AuthenticationError
C16_Witness ==
    /\ res.op = "authenticate"
    /\ NamedUser.present
    /\ TotpConfigured(NamedUser)
    /\ res.password # NamedUser.password.plain
    /\ res.token = TotpCode(time_to_counter(res.moment))
    /\ res.err = "AuthenticationError"
    /\ res.user = NoAuthUser

\* C17: with totp_enforce, authenticate with the right password and no
\* token for a principal that has second-factor state raises TOTPRequired
\* and returns no principal; TOTPRequired is raised only when the password
\* has verified, so a wrong password gives AuthenticationError.
C17_TotpRequired ==
    (res.op = "authenticate") =>
        /\ (totp_enforce /\ PasswordRight /\ NamedUser.has_totp
            /\ res.token = NoTotpToken) =>
              /\ res.err = "TOTPRequired"
              /\ res.user = NoAuthUser
        /\ (res.err = "TOTPRequired") =>
              /\ PasswordRight
              /\ res.pw_verified
              /\ totp_enforce
              /\ res.token = NoTotpToken
        /\ (NamedUser.present /\ ~PasswordRight) =>
              res.err = "AuthenticationError"

\* authenticate raised TOTPRequired for a user with a configured secret
C17_Witness ==
    /\ res.op = "authenticate"
    /\ totp_enforce
    /\ PasswordRight
    /\ NamedUser.totp = "secret"
    /\ res.token = NoTotpToken
    /\ res.err = "TOTPRequired"
    /\ res.user = NoAuthUser

\* the last operation reached the body of authenticate_totp
ReachedTotp ==
    \/ res.op = "authenticate_totp"
    \/ /\ res.op = "authenticate"
       /\ PasswordRight
       /\ res.token # NoTotpToken

\* C18: authenticate_totp, called directly or by authenticate with a token,
\* raises AuthenticationError whenever the principal is missing, has no
\* totp attribute, or has a totp that is empty or not (truthy) JSON, and
\* does so before any verification: neither the verifier nor a cache hook
\* is called. Called directly with configured state and the token None it
\* raises AuthenticationError too, again without verifying.
C18_TotpNeedsConfiguration ==
    /\ (ReachedTotp /\ ~TotpConfigured(NamedUser)) =>
          /\ res.err = "AuthenticationError"
          /\ ~res.verified
          /\ ~res.got
          /\ ~res.cached
          /\ res.user = NoAuthUser
    /\ (res.op = "authenticate_totp" /\ TotpConfigured(NamedUser)
        /\ res.token = NoTotpToken) =>
          /\ res.err = "AuthenticationError"
          /\ ~res.verified
          /\ ~res.got
          /\ ~res.cached
    /\ (res.op \in {"authenticate", "authenticate_totp"} /\ res.verified) =>
          /\ TotpConfigured(NamedUser)
          /\ res.token # NoTotpToken

\* authenticate_totp was given a code that is not even well formed for a
\* user whose totp is not valid JSON, and raised AuthenticationError without
\* looking at the code
C18_Witness ==
    /\ res.op = "authenticate_totp"
    /\ NamedUser.present
    /\ NamedUser.has_totp
    /\ NamedUser.totp = "notjson"
    /\ res.token = MalformedCode
    /\ res.err = "AuthenticationError"
    /\ ~res.verified

\* the code presented is the one whose counter the principal's cache hooks
\* hold as last accepted, presented while the verifier still looks at that
\* counter
IsReplay ==
    /\ res.op \in {"authenticate", "authenticate_totp"}
    /\ res.verified
    /\ res.token.kind = "code"
    /\ res.got
    /\ res.last_counter = res.token.counter
    /\ res.token.counter >= time_to_counter(res.moment - TotpWindow)

HooksAsDocumented ==
    (res'.op \in {"authenticate", "authenticate_totp"}) =>
        LET user == lookup(users, res'.username)
        IN  /\ res'.verified =>
                  /\ res'.got = user.has_get_cache_verify
                  /\ res'.last_counter =
                        IF user.has_get_cache_verify
                            THEN user.totp_last_counter ELSE NoCounter
            /\ ~res'.verified => (~res'.got /\ ~res'.cached)
            /\ res'.cached <=>
                  /\ res'.verified
                  /\ res'.err \in {"ok", "LegacyScheme"}
                  /\ user.has_cache_verify
            /\ res'.cached =>
                  /\ res'.counter = res'.token.counter
                  /\ users' = [users EXCEPT
                                 ![res'.username].totp_last_counter =
                                     res'.token.counter]
            /\ ~res'.cached => (users' = users)

Callers == { 1, 2 }

\* a caller with no authenticate_totp call in flight yet
IdleCall ==
    [ pc |-> "idle", username |-> "", token |-> NoTotpToken,
      err |-> "ok", got |-> FALSE, last_counter |-> NoCounter,
      counter |-> NoCounter, read_at |-> 0, wrote_at |-> 0 ]

\* how many awaited steps the coroutines have completed so far
StepsOf(frame) ==
    IF frame.pc = "idle" THEN 0
    ELSE IF frame.pc = "get" THEN 1
    ELSE IF frame.pc = "cache" THEN 2
    ELSE 3

StepsTaken ==
    LET RECURSIVE Sum(_)
        Sum(S) == IF S = {} THEN 0
                  ELSE LET p == CHOOSE x \in S : TRUE
                       IN  StepsOf(calls[p]) + Sum(S \ {p})
    IN  Sum(DOMAIN calls)

\* get_cache_verify as it would be if the store handed out a counter that
\* was never persisted
GetCacheVerify_Forgetful(store, username) == NoCounter

\* await user.get_cache_verify(): the counter the store holds when the read
\* is served
GetCacheVerify(store, username) == store[username].totp_last_counter

\* authenticate_totp up to its first await inside _verify_totp: the lookup
\* and the two conditions that need no verification
TotpCallBegin(p, username, token) ==
    LET user == lookup(users, username)
        refused == ~TotpConfigured(user) \/ token.kind = "none"
    IN  /\ calls[p].pc = "idle"
        /\ calls' = [calls EXCEPT ![p] =
                        [ IdleCall EXCEPT
                            !.pc = IF refused THEN "done" ELSE "get",
                            !.username = username,
                            !.token = token,
                            !.err = IF refused THEN "AuthenticationError"
                                               ELSE "ok" ]]
        /\ UNCHANGED << now, token_provider, totp_enforce, hash_autoupdate,
                        hash_autotest, users, blacklist, nextJti, held,
                        origin, data, res, request, token_places,
                        paseto_key, config, extensions, source_text,
                    issued >>

\* _verify_totp from the completion of get_cache_verify to the await of
\* cache_verify: the counter read, and totp_factory.verify against it
TotpCallVerify(p) ==
    LET frame == calls[p]
        user == users[frame.username]
        _last_counter == IF user.has_get_cache_verify
                            THEN GetCacheVerify(users, frame.username)
                            ELSE NoCounter
        err == TotpVerify(frame.token, _last_counter, now)
        caches == err = "ok" /\ user.has_cache_verify
    IN  /\ frame.pc = "get"
        /\ calls' = [calls EXCEPT ![p] =
                        [ frame EXCEPT
                            !.pc = IF caches THEN "cache" ELSE "done",
                            !.err = err,
                            !.got = user.has_get_cache_verify,
                            !.last_counter = _last_counter,
                            !.counter = IF err = "ok"
                                           THEN frame.token.counter
                                           ELSE NoCounter,
                            !.read_at = StepsTaken + 1 ]]
        /\ UNCHANGED << now, token_provider, totp_enforce, hash_autoupdate,
                        hash_autotest, users, blacklist, nextJti, held,
                        origin, data, res, request, token_places,
                        paseto_key, config, extensions, source_text,
                    issued >>

\* await user.cache_verify(counter=verify.counter, ...) and the return of
\* the user
TotpCallCache(p) ==
    LET frame == calls[p]
    IN  /\ frame.pc = "cache"
        /\ users' = [users EXCEPT
                        ![frame.username].totp_last_counter = frame.counter]
        /\ calls' = [calls EXCEPT ![p] =
                        [ frame EXCEPT !.pc = "done",
                                       !.wrote_at = StepsTaken + 1 ]]
        /\ UNCHANGED << now, token_provider, totp_enforce, hash_autoupdate,
                        hash_autotest, blacklist, nextJti, held, origin,
                        data, res, request, token_places, paseto_key,
                        config, extensions, source_text,
                    issued >>

\* the clock advances while the coroutines are suspended
ClockTick ==
    /\ now < MaxTime
    /\ now' = now + 1
    /\ UNCHANGED << token_provider, totp_enforce, hash_autoupdate,
                    hash_autotest, users, blacklist, nextJti, held, origin,
                    data, res, calls, request, token_places, paseto_key,
                    config, extensions, source_text,
                    issued >>

\* the stores of the concurrent runs: the_dude with a TOTP secret, of a
\* class with or without each cache hook
RaceStores ==
    { [n \in {"the_dude"} |->
          AuthUser(n, Hash("abides", "current"), TRUE, t, g, c)] :
        t \in { "empty", "secret" }, g \in BOOLEAN, c \in BOOLEAN }

InitTotpRace ==
    /\ now = 0
    /\ token_provider = "jwt"
    /\ totp_enforce = DEFAULT_TOTP_ENFORCE
    /\ hash_autoupdate = DEFAULT_HASH_AUTOUPDATE
    /\ hash_autotest = DEFAULT_HASH_AUTOTEST
    /\ users \in RaceStores
    /\ issued = NoneIssued
    /\ calls = [p \in Callers |-> IdleCall]
    /\ request = NoRequest
    /\ token_places = DEFAULT_TOKEN_PLACES
    /\ paseto_key = NoKeys
    /\ config = EmptyDict
    /\ extensions = EmptyDict
    /\ source_text = << >>
    /\ blacklist = {}
    /\ nextJti = 1
    /\ held = NoToken
    /\ origin = NoOrigin
    /\ data = EmptyDict
    /\ res = Idle

DoTotpCallBegin ==
    \E p \in Callers, username \in { "the_dude", "the_bro" },
       token \in TotpTokens(now) : TotpCallBegin(p, username, token)

DoTotpCallVerify == \E p \in Callers : TotpCallVerify(p)

DoTotpCallCache == \E p \in Callers : TotpCallCache(p)

NextTotpRace ==
    DoTotpCallBegin \/ DoTotpCallVerify \/ DoTotpCallCache \/ ClockTick

SpecTotpRace == InitTotpRace /\ [][NextTotpRace]_vars

\* both calls have returned the user for the same code of the same user
BothAccepted(p, q) ==
    /\ p # q
    /\ calls[p].pc = "done" /\ calls[q].pc = "done"
    /\ calls[p].err = "ok" /\ calls[q].err = "ok"
    /\ calls[p].username = calls[q].username
    /\ calls[p].counter = calls[q].counter

\* the user of a call exposes both cache hooks
BothHooks(p) ==
    /\ calls[p].username \in DOMAIN users
    /\ users[calls[p].username].has_get_cache_verify
    /\ users[calls[p].username].has_cache_verify

\* C21: the core takes no lock around the read of get_cache_verify, the
\* verification and the write of cache_verify. Two authenticate_totp calls
\* for the same code are both accepted only when their steps interleave:
\* whenever one call's read is served after the other call's write (the
\* read-verify-write sequences are serialized) at most one is accepted.
C21_SerializedAcceptsOnce ==
    \A p \in DOMAIN calls, q \in DOMAIN calls :
        (BothAccepted(p, q) /\ BothHooks(p)) =>
            ~(calls[p].wrote_at < calls[q].read_at)

\* two interleaved calls presented the same valid code of a user with both
\* hooks and both were accepted: the second read was served before the
\* first write
C21_Witness ==
    /\ BothAccepted(1, 2)
    /\ BothHooks(1)
    /\ calls[1].token = calls[2].token
    /\ calls[1].read_at < calls[2].read_at
    /\ calls[2].read_at < calls[1].wrote_at
    /\ calls[1].wrote_at < calls[2].wrote_at

(* ------------------------------ read_token ---------------------------- *)
\* the most places TOKEN_PLACES lists
MaxPlaces == 3

\* Beskar.header_name, Beskar.header_type and Beskar.cookie_name
header_name == "Authorization"
header_type == "Bearer"
cookie_name == "access_token"

\* a header value: the word it starts with and the words that follow,
\* each made of the characters [\w.-]
HeaderValue(type, words) == [ type |-> type, words |-> words ]

\* place.lower()
Lower(place) == IF place = "Header" THEN "header" ELSE place

\* the places for which Beskar has a read_token_from_<place> method
ReadablePlaces == { "header", "cookie" }

\* what reading one place gives
Read(kind, token) == [ kind |-> kind, token |-> token ]

\* Beskar._unpack_header: MissingToken without the header,
\* InvalidTokenHeader when re.match(header_type + r"\s*([\w\.-]+)") fails,
\* else the first word after the type
_unpack_header(headers) ==
    IF header_name \notin DOMAIN headers THEN Read("MissingToken", "")
    ELSE IF headers[header_name].type # header_type
            \/ headers[header_name].words = << >>
        THEN Read("InvalidTokenHeader", "")
    ELSE Read("token", headers[header_name].words[1])

\* Beskar._unpack_cookie
_unpack_cookie(cookies) ==
    IF cookie_name \notin DOMAIN cookies THEN Read("MissingToken", "")
    ELSE Read("token", cookies[cookie_name])

\* getattr(self, f"read_token_from_{place.lower()}")(_request)
ReadPlace(place, req) ==
    IF Lower(place) \notin ReadablePlaces THEN Read("AttributeError", "")
    ELSE IF Lower(place) = "header" THEN _unpack_header(req.headers)
    ELSE _unpack_cookie(req.cookies)

\* the loop of Beskar.read_token from place i on: the exception (or "ok"),
\* the token returned, the places warned about and the places tried
RECURSIVE ReadLoop(_, _, _, _)
ReadLoop(places, req, i, warned) ==
    IF i > Len(places)
        THEN [ err |-> "MissingToken", token |-> "", warned |-> warned,
               tried |-> Len(places) ]
    ELSE LET r == ReadPlace(places[i], req)
         IN  IF r.kind = "token"
                 THEN [ err |-> "ok", token |-> r.token, warned |-> warned,
                        tried |-> i ]
             ELSE IF r.kind = "MissingToken"
                 THEN ReadLoop(places, req, i + 1, warned)
             ELSE IF r.kind = "AttributeError"
                 THEN ReadLoop(places, req, i + 1,
                               Append(warned, Lower(places[i])))
             ELSE [ err |-> r.kind, token |-> "", warned |-> warned,
                    tried |-> i ]

\* Beskar.read_token(request)
ReadToken ==
    LET r == ReadLoop(token_places, request, 1, << >>)
    IN  /\ res' = [ op |-> "read_token", err |-> r.err, token |-> r.token,
                    warned |-> r.warned, tried |-> r.tried ]
        /\ UNCHANGED << now, token_provider, totp_enforce, hash_autoupdate,
                        hash_autotest, users, blacklist, nextJti, held,
                        origin, data, calls, request, token_places,
                        paseto_key, config, extensions, source_text,
                    issued >>

\* the next request arrives
NextRequest(req) ==
    /\ res.op = "read_token"
    /\ request' = req
    /\ res' = Idle
    /\ UNCHANGED << now, token_provider, totp_enforce, hash_autoupdate,
                    hash_autotest, users, blacklist, nextJti, held, origin,
                    data, calls, token_places, paseto_key, config,
                    extensions, source_text,
                    issued >>

\* the names TOKEN_PLACES may hold
PlaceNames == { "header", "cookie", "Header", "query" }

\* the settings of TOKEN_PLACES
PlaceLists ==
    UNION { [1 .. n -> PlaceNames] : n \in 0 .. MaxPlaces }

\* the header values a request carries
HeaderValues ==
    { HeaderValue("Bearer", << "tokA" >>),
      HeaderValue("Bearer", << "tokA", "tokC" >>),
      HeaderValue("Bearer", << >>),
      HeaderValue("Basic", << "tokA" >>) }

\* the requests: with or without the header, with or without the cookie
Requests ==
    { [ headers |-> h, cookies |-> c ] :
        h \in { EmptyDict } \cup
              { [k \in {header_name} |-> v] : v \in HeaderValues },
        c \in { EmptyDict, [k \in {cookie_name} |-> "tokB"] } }

InitReadToken ==
    /\ now = 0
    /\ token_provider = "jwt"
    /\ totp_enforce = DEFAULT_TOTP_ENFORCE
    /\ hash_autoupdate = DEFAULT_HASH_AUTOUPDATE
    /\ hash_autotest = DEFAULT_HASH_AUTOTEST
    /\ users = EmptyDict
    /\ issued = NoneIssued
    /\ calls = NoCalls
    /\ request \in Requests
    /\ token_places \in PlaceLists
    /\ paseto_key = NoKeys
    /\ config = EmptyDict
    /\ extensions = EmptyDict
    /\ source_text = << >>
    /\ blacklist = {}
    /\ nextJti = 1
    /\ held = NoToken
    /\ origin = NoOrigin
    /\ data = EmptyDict
    /\ res = Idle

DoReadToken == ReadToken

DoNextRequest == \E req \in Requests : NextRequest(req)

NextReadToken == DoReadToken \/ DoNextRequest

SpecReadToken == InitReadToken /\ [][NextReadToken]_vars

\* the place holds a token: the configured header with a token after its
\* type, or the configured cookie
Produces(place) ==
    \/ /\ Lower(place) = "header"
       /\ header_name \in DOMAIN request.headers
       /\ request.headers[header_name].type = header_type
       /\ request.headers[header_name].words # << >>
    \/ /\ Lower(place) = "cookie"
       /\ cookie_name \in DOMAIN request.cookies

\* the token the place holds
TokenOf(place) ==
    IF Lower(place) = "header" THEN request.headers[header_name].words[1]
    ELSE request.cookies[cookie_name]

\* the configured places that hold a token
Producing == { i \in 1 .. Len(token_places) : Produces(token_places[i]) }

\* the first of them
FirstProducing == CHOOSE i \in Producing : \A j \in Producing : i <= j

\* the unrecognized places among the first n, in order
RECURSIVE UnknownAmong(_, _)
UnknownAmong(places, n) ==
    IF n = 0 THEN << >>
    ELSE IF Lower(places[n]) \in ReadablePlaces
        THEN UnknownAmong(places, n - 1)
    ELSE Append(UnknownAmong(places, n - 1), Lower(places[n]))

\* C22: read_token tries the configured places in order and returns the
\* token of the first place that produces one; places without a token are
\* skipped, unrecognized places are skipped with a warning, and
\* MissingToken is raised exactly when no configured place produces a
\* token.
C22_FirstTokenFound ==
    res.op = "read_token" =>
        IF Producing # {}
            THEN /\ res.err = "ok"
                 /\ res.token = TokenOf(token_places[FirstProducing])
                 /\ res.warned = UnknownAmong(token_places,
                                              FirstProducing)
            ELSE /\ res.err = "MissingToken"
                 /\ res.warned = UnknownAmong(token_places,
                                              Len(token_places))

\* the same, but for requests whose header, if present, has the configured
\* type followed by a token
C22_FirstTokenFoundWellFormed ==
    (/\ res.op = "read_token"
     /\ (header_name \in DOMAIN request.headers =>
            Produces("header"))) => C22_FirstTokenFound

\* a header of another type is met before the cookie that holds the token
C22_MalformedHeaderFirst ==
    /\ res.op = "read_token"
    /\ res.err = "InvalidTokenHeader"
    /\ Producing # {}

\* C23: verify_and_update returns the user unchanged when the hash is of
\* the current scheme; for a hash that needs update it raises LegacyScheme
\* without a plaintext and AuthenticationError with a wrong one, leaving
\* the password as it was, and with the right plaintext it replaces the
\* password by a hash of the default scheme that verifies the same
\* plaintext.
C23_VerifyAndUpdate ==
    res.op = "verify_and_update" =>
        IF ~needs_update(res.before.password)
            THEN res.err = "ok" /\ res.user = res.before
                 /\ res.after = res.before
        ELSE IF res.password = NoPassword
            THEN res.err = "LegacyScheme" /\ res.after = res.before
        ELSE IF res.password # res.before.password.plain
            THEN res.err = "AuthenticationError"
                 /\ res.after = res.before
        ELSE /\ res.err = "ok"
             /\ res.user = res.after
             /\ ~needs_update(res.after.password)
             /\ _verify_password(res.password, res.after.password)
             /\ res.after = [res.before EXCEPT
                               !.password = res.after.password]

\* a stale hash was replaced for the right plaintext
C23_Witness ==
    /\ res.op = "verify_and_update"
    /\ needs_update(res.before.password)
    /\ res.password = res.before.password.plain
    /\ res.err = "ok"
    /\ res.user.password # res.before.password
    /\ ~needs_update(res.user.password)

\* C24: after the password (and the second factor, if any) has been
\* checked, authenticate applies the hash policy: with hash_autoupdate a
\* stale hash is replaced on the returned principal by one of the default
\* scheme, also when hash_autotest is set as well; with hash_autotest alone
\* a stale hash raises LegacyScheme; with neither the principal is returned
\* with its stale hash. A failed password check never reaches the policy.
C24_HashPolicy ==
    res.op = "authenticate" =>
        LET stale == needs_update(NamedUser.password)
        IN  /\ (res.err = "ok" /\ hash_autoupdate) =>
                  res.user =
                     [ NamedUser EXCEPT
                         !.password =
                            IF stale THEN Hash(res.password, "current")
                                     ELSE NamedUser.password ]
            /\ (res.err = "ok" /\ hash_autoupdate) =>
                  /\ ~needs_update(res.user.password)
                  /\ _verify_password(res.password, res.user.password)
            /\ (res.err = "ok" /\ ~hash_autoupdate) =>
                  /\ res.user = NamedUser
                  /\ hash_autotest => ~stale
            /\ (res.err = "LegacyScheme") =>
                  /\ PasswordRight
                  /\ stale
                  /\ hash_autotest
                  /\ ~hash_autoupdate
                  /\ res.user = NoAuthUser
                  /\ (res.token # NoTotpToken) => res.verified
            /\ ~PasswordRight =>
                  /\ res.err = "AuthenticationError"
                  /\ res.user = NoAuthUser

\* with both flags set, a principal with a stale hash and a second factor
\* was returned with its password rehashed
C24_Witness ==
    /\ res.op = "authenticate"
    /\ hash_autoupdate
    /\ hash_autotest
    /\ needs_update(NamedUser.password)
    /\ res.verified
    /\ res.err = "ok"
    /\ res.user.password = Hash("abides", "current")

\* with hash_autotest alone, the right password and an accepted code, the
\* stale hash raised LegacyScheme
C24_WitnessLegacy ==
    /\ res.op = "authenticate"
    /\ ~hash_autoupdate
    /\ hash_autotest
    /\ res.verified
    /\ res.cached
    /\ res.err = "LegacyScheme"

(* ---------------- extract_paseto_token over a list of keys ------------ *)
\* the most keys BESKAR_PASETO_KEY lists
MaxKeys == 3

\* a pyseto key: its header (version and purpose) and the key material
PasetoKey(version, purpose, material) ==
    [ header |-> << version, purpose >>, purpose |-> purpose,
      material |-> material ]

\* a token made with the key: paseto_token.new(token) gives its header,
\* and only the material it was made with opens its payload
Seal(key, token) ==
    [ format |-> "paseto", payload |-> token.payload,
      header |-> key.header, material |-> key.material ]

\* no key has failed: failed = None
NoFailure == 0

\* k.decrypt(t.payload, t.footer) / k.verify(t.payload, t.footer) followed
\* by ujson.loads: it succeeds on the payload of the token as it arrived,
\* with the material the token was made with
KeyOpens(k, token, opened) == ~opened /\ k.material = token.material

\* the loop of extract_paseto_token from key i on. t.payload is replaced by
\* the dict a key gives (opened), `failed` is the last key that raised;
\* the loop neither stops at a success nor forgets an earlier failure
RECURSIVE KeyLoop(_, _, _, _, _, _)
KeyLoop(keys, token, i, opened, failed, tried) ==
    IF i > Len(keys)
        THEN [ opened |-> opened, failed |-> failed, tried |-> tried ]
    ELSE IF keys[i].header # token.header
        THEN KeyLoop(keys, token, i + 1, opened, failed, tried)
    ELSE IF KeyOpens(keys[i], token, opened)
        THEN KeyLoop(keys, token, i + 1, TRUE, failed, Append(tried, i))
    ELSE KeyLoop(keys, token, i + 1, opened, i, Append(tried, i))

\* the exception extract_paseto_token raises, or "ok": the failure kept by
\* the loop, else the TypeError of t.payload['exp'] on a payload no key
\* opened, else what the validator says
ExtractPasetoError(keys, token, access_type, moment, bl) ==
    LET r == KeyLoop(keys, token, 1, FALSE, NoFailure, << >>)
    IN  IF r.failed # NoFailure THEN "DecryptError"
        ELSE IF ~r.opened THEN "TypeError"
        ELSE _validate_token_data(DecodeWire("paseto", token), access_type,
                                  moment, bl)

\* Beskar.extract_paseto_token(token, access_type)
ExtractPasetoToken(access_type) ==
    LET r == KeyLoop(paseto_key, held, 1, FALSE, NoFailure, << >>)
        err == ExtractPasetoError(paseto_key, held, access_type, now,
                                  blacklist)
        decoded == DecodeWire("paseto", held)
    IN  /\ res' = [ op |-> "extract_paseto_token",
                    access_type |-> access_type, err |-> err,
                    moment |-> now, input |-> held,
                    claims |-> IF err = "ok" THEN decoded ELSE EmptyDict,
                    opened |-> r.opened, failed |-> r.failed,
                    tried |-> r.tried ]
        /\ UNCHANGED << now, token_provider, totp_enforce, hash_autoupdate,
                        hash_autotest, users, blacklist, nextJti, held,
                        origin, data, calls, request, token_places,
                        paseto_key, config, extensions, source_text,
                    issued >>

\* the keys an application may configure
PasetoKeys ==
    { PasetoKey(v, "local", m) : v \in { 3, 4 }, m \in { "old", "new" } }

\* the settings of BESKAR_PASETO_KEY: a key (the list of that one key) or a
\* list of keys
KeyLists == UNION { [1 .. n -> PasetoKeys] : n \in 1 .. MaxKeys }

\* the tokens presented: a token of the_dude, expiring at 2 and refreshable
\* until 3, made with one of the keys
SealedTokens ==
    { Seal(k, PasetoEncode(ClaimSet({ "jti", "id", "exp",
                                      REFRESH_EXPIRATION_CLAIM }, 1, 2, 3),
                           2, 0)) : k \in PasetoKeys }

InitKeys ==
    /\ now = 0
    /\ token_provider = "paseto"
    /\ totp_enforce = DEFAULT_TOTP_ENFORCE
    /\ hash_autoupdate = DEFAULT_HASH_AUTOUPDATE
    /\ hash_autotest = DEFAULT_HASH_AUTOTEST
    /\ users \in StoreChoices
    /\ issued = NoneIssued
    /\ calls = NoCalls
    /\ request = NoRequest
    /\ token_places = DEFAULT_TOKEN_PLACES
    /\ paseto_key \in KeyLists
    /\ config = EmptyDict
    /\ extensions = EmptyDict
    /\ source_text = << >>
    /\ blacklist = {}
    /\ nextJti = 1
    /\ held \in SealedTokens
    /\ origin = NoOrigin
    /\ data = EmptyDict
    /\ res = Idle

DoExtractPaseto ==
    \E access_type \in { "access", "refresh" } :
        ExtractPasetoToken(access_type)

NextKeys == DoExtractPaseto \/ Tick

SpecKeys == InitKeys /\ [][NextKeys]_vars

\* the configured keys whose header is the token's
MatchingKeys ==
    { i \in 1 .. Len(paseto_key) : paseto_key[i].header = res.input.header }

\* those of them that open the token
WorkingKeys ==
    { i \in MatchingKeys : paseto_key[i].material = res.input.material }

\* C25: PASETO decode over the ordered key list skips the keys whose header
\* is not the token's and tries the matching keys in order; if one of them
\* opens the token, decoding succeeds with its payload (the validator then
\* decides) even if an earlier matching key failed, and an error of the
\* keys, the last failure, is surfaced only when no key succeeds.
C25_FirstSuccessWins ==
    res.op = "extract_paseto_token" =>
        /\ \A i \in 1 .. Len(res.tried) : res.tried[i] \in MatchingKeys
        /\ (WorkingKeys # {}) =>
              /\ res.opened
              /\ res.err = _validate_token_data(
                               DecodeWire("paseto", res.input),
                               res.access_type, res.moment, blacklist)
        /\ (WorkingKeys = {}) =>
              /\ res.err # "ok"
              /\ MatchingKeys # {} =>
                    /\ res.err = "DecryptError"
                    /\ \A j \in MatchingKeys : j <= res.failed

\* the same for key lists in which at most one key has the token's header
C25_SingleMatchingKey ==
    (res.op = "extract_paseto_token" /\ Cardinality(MatchingKeys) <= 1) =>
        C25_FirstSuccessWins

\* an earlier matching key failed, a later one opened the token, and the
\* earlier failure was raised
C25_EarlierFailureRaised ==
    /\ res.op = "extract_paseto_token"
    /\ res.opened
    /\ res.failed # NoFailure
    /\ \E i \in WorkingKeys : res.failed < i
    /\ res.err = "DecryptError"

(* ===================== properties of the two codecs =================== *)
\* the claim set an encode or refresh has just built, as it comes back
\* from the given codec
ThroughCodec(provider) ==
    DecodeWire(provider,
               EncodeWire(provider, res.claims,
                          res.claims["exp"] - res.moment, res.moment))

\* C26: the claim set is built the same way whatever the codec, and comes
\* back from either codec as the same claim set, exp being the same integer
\* second after decoding, so that the validator gives the same outcome for
\* it under JWT and under PASETO, for every access type at every instant.
C26_CodecsAgree ==
    (res.op \in {"encode", "refresh"} /\ res.err = "ok") =>
        /\ ThroughCodec("jwt") = ThroughCodec("paseto")
        /\ IssuedClaims = ThroughCodec("jwt")
        /\ \A access_type \in AccessType, moment \in 0 .. MaxTime :
              _validate_token_data(ThroughCodec("jwt"), access_type,
                                   moment, blacklist)
              = _validate_token_data(ThroughCodec("paseto"), access_type,
                                     moment, blacklist)

\* the same for claim sets whose exp lies after the moment of encoding
C26_CodecsAgreeOnPositiveLifespan ==
    (/\ res.op \in {"encode", "refresh"}
     /\ res.err = "ok"
     /\ res.claims["exp"] > res.moment
     /\ res.claims["exp"] - res.moment < SecondsPerDay) => C26_CodecsAgree

(* ------------------------- duration_from_string ----------------------- *)
\* the longest text handed to duration_from_string
MaxText == 4

\* the characters of a text: digits, lower-case letters, an upper-case
\* letter, the space, the comma and a character of no class
Digits == { "1", "2" }
Letters == { "y", "m", "o", "d", "h", "s" }
Chars == Digits \cup Letters \cup { "H", " ", ",", "!" }

\* str.lower() on one character
LowerChar(c) == IF c = "H" THEN "h" ELSE c

\* text.replace(' ', '').replace(',', '').lower()
RECURSIVE Normalize(_)
Normalize(t) ==
    IF t = << >> THEN << >>
    ELSE IF Head(t) \in { " ", "," } THEN Normalize(Tail(t))
    ELSE << LowerChar(Head(t)) >> \o Normalize(Tail(t))

\* the position after the longest run of characters of the class from pos
RECURSIVE RunEnd(_, _, _)
RunEnd(t, pos, class) ==
    IF pos <= Len(t) /\ t[pos] \in class THEN RunEnd(t, pos + 1, class)
    ELSE pos

\* int(v) of the digits t[from .. to - 1]
RECURSIVE ToInt(_, _, _)
ToInt(t, from, to) ==
    IF to <= from THEN 0
    ELSE 10 * ToInt(t, from, to - 1) + (IF t[to - 1] = "1" THEN 1 ELSE 2)

\* the groups of the pattern, in its order: name and unit prefix
Groups ==
    << [ name |-> "years", unit |-> << "y" >> ],
       [ name |-> "months", unit |-> << "m", "o" >> ],
       [ name |-> "days", unit |-> << "d" >> ],
       [ name |-> "hours", unit |-> << "h" >> ],
       [ name |-> "minutes", unit |-> << "m" >> ],
       [ name |-> "seconds", unit |-> << "s" >> ] >>

\* whether t continues with the unit prefix at pos
StartsWith(t, pos, unit) ==
    /\ pos + Len(unit) - 1 <= Len(t)
    /\ \A i \in 1 .. Len(unit) : t[pos + i - 1] = unit[i]

\* one optional group ((?P<name>\d+)unit[a-z]*)? tried at pos: whether it
\* takes part in the match, the digits it captured and where it ends
GroupAt(t, pos, g) ==
    LET digits_end == RunEnd(t, pos, Digits)
        hit == digits_end > pos /\ StartsWith(t, digits_end, g.unit)
    IN  [ hit |-> hit,
          value |-> ToInt(t, pos, digits_end),
          end |-> IF hit
                     THEN RunEnd(t, digits_end + Len(g.unit), Letters)
                     ELSE pos ]

\* re.match(pattern, text, re.VERBOSE) from group i on: every group is
\* optional and the pattern is not anchored at the end of the text, so the
\* match always exists; `clean` collects the captured groups and `end` is
\* where the match stops
RECURSIVE Match(_, _, _, _)
Match(t, pos, i, clean) ==
    IF i > Len(Groups) THEN [ clean |-> clean, end |-> pos ]
    ELSE LET g == GroupAt(t, pos, Groups[i])
         IN  IF g.hit
                 THEN Match(t, g.end, i + 1,
                            Update(clean,
                                   [k \in {Groups[i].name} |-> g.value]))
                 ELSE Match(t, pos, i + 1, clean)

\* duration_from_string(text): the exception (or "ok"), the duration as the
\* keyword arguments of pendulum.duration, and how much of the normalized
\* text the match covered
duration_from_string(t) ==
    LET normal == Normalize(t)
        m == Match(normal, 1, 1, EmptyDict)
    IN  [ err |-> IF m.clean = EmptyDict THEN "ConfigurationError"
                                         ELSE "ok",
          duration |-> IF m.clean = EmptyDict THEN EmptyDict ELSE m.clean,
          normal |-> normal,
          end |-> m.end ]

\* a call of duration_from_string on the text
DurationFromString ==
    LET r == duration_from_string(source_text)
    IN  /\ res' = [ op |-> "duration_from_string", err |-> r.err,
                    text |-> source_text, duration |-> r.duration,
                    normal |-> r.normal, end |-> r.end ]
        /\ UNCHANGED << now, token_provider, totp_enforce, hash_autoupdate,
                        hash_autotest, users, blacklist, nextJti, held,
                        origin, data, calls, request, token_places,
                        paseto_key, config, extensions, source_text,
                    issued >>

\* the texts: every string of at most MaxText characters
Texts == UNION { [1 .. n -> Chars] : n \in 0 .. MaxText }

InitDuration ==
    /\ now = 0
    /\ token_provider = "jwt"
    /\ totp_enforce = DEFAULT_TOTP_ENFORCE
    /\ hash_autoupdate = DEFAULT_HASH_AUTOUPDATE
    /\ hash_autotest = DEFAULT_HASH_AUTOTEST
    /\ users = EmptyDict
    /\ issued = NoneIssued
    /\ calls = NoCalls
    /\ request = NoRequest
    /\ token_places = DEFAULT_TOKEN_PLACES
    /\ paseto_key = NoKeys
    /\ config = EmptyDict
    /\ extensions = EmptyDict
    /\ source_text \in Texts
    /\ blacklist = {}
    /\ nextJti = 1
    /\ held = NoToken
    /\ origin = NoOrigin
    /\ data = EmptyDict
    /\ res = Idle

NextDuration == DurationFromString

SpecDuration == InitDuration /\ [][NextDuration]_vars

\* C29: duration_from_string strips spaces and commas, lower-cases, and
\* returns the duration made of the <int><unit> components of the text; it
\* raises ConfigurationError when no component matches and whenever part
\* of the text is not consumed by a component (trailing garbage, components
\* out of the y/mo/d/h/m/s order); it changes nothing else.
C29_WholeTextParsed ==
    res.op = "duration_from_string" =>
        /\ res.normal = Normalize(res.text)
        /\ res.err \in { "ok", "ConfigurationError" }
        /\ (res.err = "ok") <=>
              (res.duration # EmptyDict /\ res.end = Len(res.normal) + 1)
        /\ (res.err # "ok") => (res.duration = EmptyDict)

\* the same without the requirement that the whole text is consumed: the
\* error is raised exactly when no component matches at the start
C29_LeadingComponentsParsed ==
    res.op = "duration_from_string" =>
        /\ res.normal = Normalize(res.text)
        /\ (res.err = "ok") <=> (res.duration # EmptyDict)
        /\ (res.err # "ok") =>
              /\ res.err = "ConfigurationError"
              /\ res.end = 1

\* a text whose components are out of order was accepted as its first
\* component
C29_OutOfOrderAccepted ==
    /\ res.op = "duration_from_string"
    /\ res.text = << "1", "m", "2", "h" >>
    /\ res.err = "ok"
    /\ res.duration = [k \in {"minutes"} |-> 1]

(* -------------------------------- init_app ---------------------------- *)
\* DEFAULT_TOKEN_PROVIDER and DEFAULT_PASETO_VERSION of
\* sanic_beskar.constants
DEFAULT_TOKEN_PROVIDER == "jwt"
DEFAULT_PASETO_VERSION == 4

\* app.config.get(key, default)
ConfigGet(key, default) ==
    IF key \in DOMAIN config THEN config[key] ELSE default

\* a configured lifespan: a duration, a dict of keyword arguments for
\* pendulum.duration, a text for duration_from_string, or an integer
LifespanValue(type, value) == [ type |-> type, value |-> value ]

\* the lifespan settings after the dict and str conversions of init_app:
\* the exception duration_from_string raises (or "ok") and the type of the
\* value that is left
ConvertLifespan(setting) ==
    IF setting.type = "dict"
        THEN [ err |-> "ok", type |-> "duration" ]
    ELSE IF setting.type = "str"
        THEN [ err |-> duration_from_string(setting.value).err,
               type |-> "duration" ]
    ELSE [ err |-> "ok", type |-> setting.type ]

\* the exception of a lifespan setting: that of its conversion, else that
\* of require_condition(isinstance(lifespan, datetime.timedelta))
LifespanError(setting) ==
    IF ConvertLifespan(setting).err # "ok" THEN ConvertLifespan(setting).err
    ELSE IF ConvertLifespan(setting).type # "duration"
        THEN "ConfigurationError"
    ELSE "ok"

\* str.lower() on the configured names
LowerName(name) ==
    CASE name = "PASETO" -> "paseto"
      [] name = "FILE" -> "file"
      [] OTHER -> name

\* the provider names p for which Beskar has an attribute encode_<p>_token
Encoders == { "jwt", "paseto", "eternal" }

\* self.paseto_version > 0 < 4, which Python reads as
\* (self.paseto_version > 0) and (0 < 4)
PasetoVersionAccepted(paseto_version) == paseto_version > 0 /\ 0 < 4

\* the versions pyseto's Key.new knows
KeyVersions == 1 .. 4

\* the secrets types init_app knows
SecretsTypes == { "file", "string", "wallet" }

\* no BESKAR_TOTP_SECRETS_TYPE / BESKAR_TOTP_SECRETS_DATA:
\* DEFAULT_TOTP_SECRETS_TYPE and DEFAULT_TOTP_SECRETS_DATA are None
NoSecrets == "None"

\* the first exception init_app raises on the configuration, or "ok", in
\* the order of its statements
InitAppError ==
    LET access == ConfigGet("TOKEN_ACCESS_LIFESPAN",
                            LifespanValue("duration",
                                          DEFAULT_TOKEN_ACCESS_LIFESPAN))
        refresh == ConfigGet("TOKEN_REFRESH_LIFESPAN",
                             LifespanValue("duration",
                                           DEFAULT_TOKEN_REFRESH_LIFESPAN))
        provider == LowerName(ConfigGet("BESKAR_TOKEN_PROVIDER",
                                        DEFAULT_TOKEN_PROVIDER))
        paseto_version == ConfigGet("BESKAR_PASETO_VERSION",
                                    DEFAULT_PASETO_VERSION)
        totp_secrets_type == ConfigGet("BESKAR_TOTP_SECRETS_TYPE",
                                       NoSecrets)
        totp_secrets_data == ConfigGet("BESKAR_TOTP_SECRETS_DATA",
                                       NoSecrets)
    IN  IF "SECRET_KEY" \notin DOMAIN config THEN "ConfigurationError"
        ELSE IF LifespanError(access) # "ok" THEN LifespanError(access)
        ELSE IF LifespanError(refresh) # "ok" THEN LifespanError(refresh)
        ELSE IF provider \notin Encoders THEN "AttributeError"
        ELSE IF ~PasetoVersionAccepted(paseto_version)
            THEN "ConfigurationError"
        ELSE IF provider = "paseto" /\ paseto_version \notin KeyVersions
            THEN "ValueError"
        ELSE IF totp_secrets_type # NoSecrets
                /\ totp_secrets_data = NoSecrets
            THEN "ConfigurationError"
        ELSE IF totp_secrets_type # NoSecrets
                /\ LowerName(totp_secrets_type) \notin SecretsTypes
            THEN "ConfigurationError"
        ELSE "ok"

\* Beskar.init_app(app, user_class) on an app without the extension. The
\* middleware is registered first; the settings read before the failing
\* statement stay on the guard; the guard is entered in app.ctx.extensions
\* by the last statement
InitApp ==
    LET err == InitAppError
        has_key == "SECRET_KEY" \in DOMAIN config
        provider == LowerName(ConfigGet("BESKAR_TOKEN_PROVIDER",
                                        DEFAULT_TOKEN_PROVIDER))
    IN  /\ res = Idle
        /\ res' = [ op |-> "init_app", err |-> err, middleware |-> TRUE,
                    token_provider |-> provider ]
        /\ token_provider' = IF has_key THEN provider ELSE token_provider
        /\ extensions' = IF err = "ok"
                            THEN Update(extensions,
                                        [k \in {"beskar"} |-> provider])
                            ELSE extensions
        /\ UNCHANGED << now, totp_enforce, hash_autoupdate, hash_autotest,
                        users, blacklist, nextJti, held, origin, data,
                        calls, request, token_places, paseto_key, config,
                        source_text,
                    issued >>

\* a setting that is absent or has one of the values
Setting(key, values) ==
    { EmptyDict } \cup { [k \in {key} |-> v] : v \in values }

\* the lifespans an application configures
LifespanSettings ==
    { LifespanValue("duration", 2),
      LifespanValue("dict", [k \in {"seconds"} |-> 2]),
      LifespanValue("str", << "1", "h" >>),
      LifespanValue("str", << "!" >>),
      LifespanValue("int", 2) }

\* the configurations init_app is run on
Configs ==
    { Update(a, Update(b, Update(c, Update(d, Update(e, Update(f, g)))))) :
        a \in Setting("SECRET_KEY", { "top secret" }),
        b \in Setting("TOKEN_ACCESS_LIFESPAN", LifespanSettings),
        c \in Setting("TOKEN_REFRESH_LIFESPAN",
                      { LifespanValue("duration", 3),
                        LifespanValue("int", 3) }),
        d \in Setting("BESKAR_TOKEN_PROVIDER",
                      { "jwt", "paseto", "PASETO", "eternal", "foo" }),
        e \in Setting("BESKAR_PASETO_VERSION", { -1, 0, 1, 2, 3, 4, 5 }),
        f \in Setting("BESKAR_TOTP_SECRETS_TYPE",
                      { "file", "FILE", "string", "wallet", "failwhale" }),
        g \in Setting("BESKAR_TOTP_SECRETS_DATA", { "secrets" }) }

InitInitApp ==
    /\ now = 0
    /\ token_provider = "jwt"
    /\ totp_enforce = DEFAULT_TOTP_ENFORCE
    /\ hash_autoupdate = DEFAULT_HASH_AUTOUPDATE
    /\ hash_autotest = DEFAULT_HASH_AUTOTEST
    /\ users = EmptyDict
    /\ issued = NoneIssued
    /\ calls = NoCalls
    /\ request = NoRequest
    /\ token_places = DEFAULT_TOKEN_PLACES
    /\ paseto_key = NoKeys
    /\ config \in Configs
    /\ extensions = EmptyDict
    /\ source_text = << >>
    /\ blacklist = {}
    /\ nextJti = 1
    /\ held = NoToken
    /\ origin = NoOrigin
    /\ data = EmptyDict
    /\ res = Idle

NextInitApp == InitApp

SpecInitApp == InitInitApp /\ [][NextInitApp]_vars

\* a lifespan setting that is no duration and cannot be made one
NotADuration(key) ==
    /\ key \in DOMAIN config
    /\ \/ config[key].type = "int"
       \/ /\ config[key].type = "str"
          /\ duration_from_string(config[key].value).err # "ok"

\* the TOTP secrets type is set without data, or is none of the three
BadSecrets ==
    /\ "BESKAR_TOTP_SECRETS_TYPE" \in DOMAIN config
    /\ \/ "BESKAR_TOTP_SECRETS_DATA" \notin DOMAIN config
       \/ LowerName(config["BESKAR_TOTP_SECRETS_TYPE"]) \notin SecretsTypes

\* the token provider is set to something other than jwt or paseto
BadProvider ==
    /\ "BESKAR_TOKEN_PROVIDER" \in DOMAIN config
    /\ LowerName(config["BESKAR_TOKEN_PROVIDER"]) \notin { "jwt", "paseto" }

\* C27: a misconfiguration is fatal to init_app and reported as
\* ConfigurationError: a missing SECRET_KEY, a TOTP secrets type without
\* secrets data or other than file/string/wallet, a token provider other
\* than jwt or paseto, an access or refresh lifespan that is no duration;
\* the guard is then not entered in the app's extensions.
C27_MisconfigurationIsFatal ==
    (/\ res.op = "init_app"
     /\ \/ "SECRET_KEY" \notin DOMAIN config
        \/ BadSecrets
        \/ BadProvider
        \/ NotADuration("TOKEN_ACCESS_LIFESPAN")
        \/ NotADuration("TOKEN_REFRESH_LIFESPAN")) =>
        /\ res.err = "ConfigurationError"
        /\ "beskar" \notin DOMAIN extensions

\* the same without the token provider: with the provider left at jwt or
\* paseto and a PASETO version between 1 and 4
C27_MisconfigurationIsFatalKnownProvider ==
    (/\ res.op = "init_app"
     /\ ~BadProvider
     /\ ("BESKAR_PASETO_VERSION" \in DOMAIN config) =>
            config["BESKAR_PASETO_VERSION"] \in 1 .. 4
     /\ \/ "SECRET_KEY" \notin DOMAIN config
        \/ BadSecrets
        \/ NotADuration("TOKEN_ACCESS_LIFESPAN")
        \/ NotADuration("TOKEN_REFRESH_LIFESPAN")) =>
        /\ res.err = "ConfigurationError"
        /\ "beskar" \notin DOMAIN extensions

\* whatever the exception, a failed init_app leaves the extensions alone
C27_FailureNotRegistered ==
    res.op = "init_app" =>
        ((res.err = "ok") <=> ("beskar" \in DOMAIN extensions))

\* C28: only the PASETO versions 1, 2, 3 and 4 are accepted: init_app
\* raises ConfigurationError for every configured paseto_version outside
\* 1..4, and a configuration that is otherwise in order is accepted with
\* each of 1..4.
C28_PasetoVersions ==
    (res.op = "init_app" /\ "BESKAR_PASETO_VERSION" \in DOMAIN config) =>
        /\ (config["BESKAR_PASETO_VERSION"] \notin 1 .. 4) =>
              /\ res.err = "ConfigurationError"
              /\ "beskar" \notin DOMAIN extensions
        /\ (/\ config["BESKAR_PASETO_VERSION"] \in 1 .. 4
            /\ DOMAIN config \subseteq
                  { "SECRET_KEY", "BESKAR_PASETO_VERSION",
                    "BESKAR_TOKEN_PROVIDER" }
            /\ "SECRET_KEY" \in DOMAIN config
            /\ ~BadProvider) =>
              res.err = "ok"

\* the same for the versions below 5
C28_PasetoVersionsBelowFive ==
    (/\ res.op = "init_app"
     /\ "BESKAR_PASETO_VERSION" \in DOMAIN config
     /\ config["BESKAR_PASETO_VERSION"] < 5
     /\ ~BadProvider) => C28_PasetoVersions

(* ================= properties of a lineage of refreshes =============== *)
\* the claims of the token the caller holds
HeldClaims == DecodeWire(token_provider, held)

\* the token the caller holds is refused for access and for refresh
HeldRefused ==
    /\ ExtractError(token_provider, held, "access", now, blacklist) # "ok"
    /\ ExtractError(token_provider, held, "refresh", now, blacklist)
           # "ok"

\* C30: refresh never extends the refresh window. Every successful refresh
\* returns a token with the refresh expiry of the token it replaces and
\* with exp not after it, and once the clock has passed the refresh expiry
\* the token held is refused for access and for refresh, so no further
\* refresh succeeds.
C30_RefreshWindowNeverExtended ==
    [][ /\ (held # NoToken /\ res'.op = "refresh" /\ res'.err = "ok") =>
              /\ HeldClaims'[REFRESH_EXPIRATION_CLAIM]
                     = HeldClaims[REFRESH_EXPIRATION_CLAIM]
              /\ HeldClaims'["exp"] <= HeldClaims[REFRESH_EXPIRATION_CLAIM]
        /\ (held' # NoToken
            /\ now' > HeldClaims'[REFRESH_EXPIRATION_CLAIM]) => HeldRefused'
      ]_vars

\* the same under the JWT provider
C30_RefreshWindowNeverExtendedJwt ==
    [][ (token_provider = "jwt") =>
          /\ (held # NoToken /\ res'.op = "refresh" /\ res'.err = "ok") =>
                /\ HeldClaims'[REFRESH_EXPIRATION_CLAIM]
                       = HeldClaims[REFRESH_EXPIRATION_CLAIM]
                /\ HeldClaims'["exp"]
                       <= HeldClaims[REFRESH_EXPIRATION_CLAIM]
          /\ (held' # NoToken
              /\ now' > HeldClaims'[REFRESH_EXPIRATION_CLAIM]) =>
                    HeldRefused'
      ]_vars

\* the refresh expiry alone is carried over by every successful refresh
C30_RefreshExpiryKept ==
    [][ (held # NoToken /\ res'.op = "refresh" /\ res'.err = "ok") =>
              HeldClaims'[REFRESH_EXPIRATION_CLAIM]
                  = HeldClaims[REFRESH_EXPIRATION_CLAIM]
      ]_vars

(* ---------------- several tokens, lineages and blacklisting ----------- *)
\* how many tokens the callers keep
MaxIssued == 3

\* the role names an administrator gives a principal later on
LaterRoles == << "operator" >>

\* the jti claim of a token
JtiOf(token) == DecodeWire(token_provider, token)["jti"]

\* the kept tokens
KeptTokens == { r.token : r \in issued }

\* the record kept for a token
Kept(token) == CHOOSE r \in issued : r.token = token

\* the encode_token calls whose tokens, or tokens refreshed from them, are
\* kept
Roots == { r.root : r \in issued }

\* a caller presents one of the kept tokens
PresentToken ==
    /\ \E r \in issued : held' = r.token
    /\ origin' = NoOrigin
    /\ res' = Idle
    /\ UNCHANGED << now, token_provider, totp_enforce, hash_autoupdate,
                    hash_autotest, calls, request, token_places,
                    paseto_key, config, extensions, source_text, users,
                    blacklist, nextJti, data, issued >>

\* the caller keeps the token encode_token or refresh_token has just
\* returned; a refreshed token belongs to the encode_token call the token
\* it was refreshed from belongs to
KeepToken ==
    /\ res.op \in { "encode", "refresh" }
    /\ res.err = "ok"
    /\ res.token \notin KeptTokens
    /\ Cardinality(issued) < MaxIssued
    /\ res.op = "refresh" => res.input \in KeptTokens
    /\ issued' = issued \cup
           { [ token |-> res.token,
               root |-> IF res.op = "encode"
                           THEN Cardinality(Roots) + 1
                           ELSE Kept(res.input).root,
               refreshed |-> res.op = "refresh",
               used |-> FALSE ] }
    /\ res' = Idle
    /\ UNCHANGED << now, token_provider, totp_enforce, hash_autoupdate,
                    hash_autotest, calls, request, token_places,
                    paseto_key, config, extensions, source_text, users,
                    blacklist, nextJti, held, origin, data >>

\* the caller notes that the registration or reset token it presented has
\* been accepted
NoteUse ==
    /\ res.op \in { "get_user_from_registration_token",
                    "validate_reset_token" }
    /\ res.err = "ok"
    /\ res.input \in KeptTokens
    /\ ~Kept(res.input).used
    /\ issued' = (issued \ { Kept(res.input) })
                 \cup { [Kept(res.input) EXCEPT !.used = TRUE] }
    /\ res' = Idle
    /\ UNCHANGED << now, token_provider, totp_enforce, hash_autoupdate,
                    hash_autotest, calls, request, token_places,
                    paseto_key, config, extensions, source_text, users,
                    blacklist, nextJti, held, origin, data >>

\* the application starts answering True from is_blacklisted(jti)
BlacklistJti ==
    /\ \E r \in issued :
           /\ JtiOf(r.token) \notin blacklist
           /\ blacklist' = blacklist \cup { JtiOf(r.token) }
    /\ res' = Idle
    /\ UNCHANGED << now, token_provider, totp_enforce, hash_autoupdate,
                    hash_autotest, calls, request, token_places,
                    paseto_key, config, extensions, source_text, users,
                    nextJti, held, origin, data, issued >>

\* the application changes the roles of a stored principal
ChangeRoles ==
    /\ \E i \in DOMAIN users :
           /\ users[i].rolenames # LaterRoles
           /\ users' = [users EXCEPT ![i].rolenames = LaterRoles]
    /\ res' = Idle
    /\ UNCHANGED << now, token_provider, totp_enforce, hash_autoupdate,
                    hash_autotest, calls, request, token_places,
                    paseto_key, config, extensions, source_text,
                    blacklist, nextJti, held, origin, data, issued >>

InitLineage ==
    /\ now = 0
    /\ token_provider \in { "jwt", "paseto" }
    /\ totp_enforce = DEFAULT_TOTP_ENFORCE
    /\ hash_autoupdate = DEFAULT_HASH_AUTOUPDATE
    /\ hash_autotest = DEFAULT_HASH_AUTOTEST
    /\ users = [i \in UserIds |->
                   UserObject(i, << "admin", "operator" >>, TRUE, TRUE)]
    /\ issued = NoneIssued
    /\ calls = NoCalls
    /\ request = NoRequest
    /\ token_places = DEFAULT_TOKEN_PLACES
    /\ paseto_key = NoKeys
    /\ config = EmptyDict
    /\ extensions = EmptyDict
    /\ source_text = << >>
    /\ blacklist = {}
    /\ nextJti = 1
    /\ held = NoToken
    /\ origin = NoOrigin
    /\ data = EmptyDict
    /\ res = Idle

\* encode_token(user, override_refresh_lifespan=...) for a stored user,
\* with a refresh lifespan long enough for a refreshed token to be
\* refreshed again
DoIssue ==
    \E i \in DOMAIN users :
        /\ Cardinality(issued) < MaxIssued
        /\ EncodeToken(users[i], NoOverride, MaxTime, FALSE, FALSE, FALSE,
                       EmptyDict)

DoExtractHeld == \E access_type \in AccessType : ExtractToken(access_type)

DoRefreshHeld == RefreshToken(NoOverride, 0)

DoExtractAccess == ExtractToken("access")

NextLineage ==
    \/ DoIssue \/ KeepToken \/ PresentToken
    \/ DoExtractAccess \/ DoRefreshHeld \/ BlacklistJti
    \/ Tick

SpecLineage == InitLineage /\ [][NextLineage]_vars

(* ------------------------------- C31 ---------------------------------- *)
\* what extract_token would answer for a kept token now
ExtractsAs(token, access_type) ==
    ExtractError(token_provider, token, access_type, now, blacklist)

\* the kept tokens whose lineage holds a token with a blacklisted jti
Revoked ==
    { s \in issued :
        \E r \in issued : /\ r.root = s.root
                          /\ is_blacklisted(blacklist, JtiOf(r.token)) }

\* C31: once is_blacklisted(jti) is true for the jti of a token,
\* extract_token fails with BlacklistedError for every purpose and at every
\* time, for that token and for every token refreshed from it or from the
\* same original, and refresh_token on any of them fails with
\* BlacklistedError, returns no token and does not reach the principal's
\* validation
C31_BlacklistCoversLineage ==
    /\ \A s \in Revoked, access_type \in AccessType :
           ExtractsAs(s.token, access_type) = "BlacklistedError"
    /\ ( /\ res.op \in { "extract", "refresh" }
         /\ res.input \in { s.token : s \in Revoked } )
       => /\ res.err = "BlacklistedError"
          /\ res.token = NoToken
          /\ res.claims = EmptyDict
          /\ ~res.checked

\* refresh_token has just refused a refreshed token within its refresh
\* window because the jti was blacklisted after the token was handed out
C31_Witness ==
    /\ res.op = "refresh"
    /\ res.err = "BlacklistedError"
    /\ res.input \in KeptTokens
    /\ Kept(res.input).refreshed
    /\ ExtractError(token_provider, res.input, "refresh", now, {}) = "ok"
    /\ \E r \in issued : /\ r.root = Kept(res.input).root
                         /\ ~r.refreshed
                         /\ ExtractsAs(r.token, "access")
                                = "BlacklistedError"

(* ------------------------------- C32 ---------------------------------- *)
\* C32: two kept tokens carry the same jti if and only if they descend from
\* the same encode_token call (one is the original or a refresh of the
\* original of the other); encode_token draws a jti no earlier token has,
\* and refresh_token draws none and returns the jti of the token it was
\* given
C32_JtiIdentifiesLineage ==
    /\ \A r \in issued, s \in issued :
           (JtiOf(r.token) = JtiOf(s.token)) <=> (r.root = s.root)
    /\ (res.op = "encode" /\ res.err = "ok")
       => /\ res.drawn
          /\ \A r \in issued : r.token # res.token
                                   => JtiOf(r.token) # res.claims["jti"]
    /\ (res.op = "refresh" /\ res.err = "ok")
       => /\ ~res.drawn
          /\ res.claims["jti"] = res.decoded["jti"]

\* two tokens of one lineage (an original and its refresh) and a token of
\* another lineage are kept
C32_Witness ==
    \E r \in issued, s \in issued, t \in issued :
        /\ r.root = s.root
        /\ ~r.refreshed
        /\ s.refreshed
        /\ t.root # r.root
        /\ JtiOf(r.token) = JtiOf(s.token)
        /\ JtiOf(t.token) # JtiOf(r.token)

(* ------------------------------- C33 ---------------------------------- *)
\* authenticate has just raised
AuthenticateRaised == res'.op = "authenticate" /\ res'.err # "ok"

\* C33: whenever authenticate raises, the principal store is as it was
\* before the call: the persisted TOTP counter has not been advanced through
\* cache_verify and the password hash has not been replaced
C33_FailedAuthenticateChangesNothing ==
    [][AuthenticateRaised => users' = users]_vars

\* the only failure of authenticate after which the store has changed is
\* LegacyScheme, raised by the hash stage after the TOTP code was accepted
\* and its counter written through cache_verify
C33_ChangedOnlyBeforeLegacyScheme ==
    [][(AuthenticateRaised /\ users' # users)
          => /\ res'.err = "LegacyScheme"
             /\ res'.verified
             /\ res'.cached
             /\ ~hash_autoupdate /\ hash_autotest]_vars

\* whenever authenticate raises, no password hash in the store has been
\* replaced
C33_FailedAuthenticateKeepsHash ==
    [][AuthenticateRaised
          => \A u \in DOMAIN users :
                 users'[u].password = users[u].password]_vars

(* ------------------------------- C34 ---------------------------------- *)
\* C34: when the username is unknown or the password is wrong, authenticate
\* fails with AuthenticationError whatever TOTP code is supplied, and
\* neither get_cache_verify, the TOTP verifier nor cache_verify has been
\* called
C34_PasswordBeforeSecondFactor ==
    (res.op = "authenticate" /\ ~PasswordRight) =>
        /\ res.err = "AuthenticationError"
        /\ ~res.got
        /\ ~res.configured
        /\ ~res.verified
        /\ ~res.cached
        /\ res.last_counter = NoCounter
        /\ res.counter = NoCounter

\* authenticate has refused a wrong password that came with the code of the
\* current period, for a principal with a TOTP secret and both cache hooks
C34_Witness ==
    /\ res.op = "authenticate"
    /\ NamedUser.present
    /\ TotpConfigured(NamedUser)
    /\ NamedUser.has_get_cache_verify
    /\ NamedUser.has_cache_verify
    /\ ~PasswordRight
    /\ res.token = TotpCode(time_to_counter(res.moment))
    /\ TotpStep(NamedUser, res.token, res.moment).verified
    /\ res.err = "AuthenticationError"

(* ------------------------------- C35 ---------------------------------- *)
\* C35: one authenticate call calls the principal store's lookup exactly
\* once, also when it routes into authenticate_totp
C35_SingleLookup ==
    (res.op = "authenticate") => res.lookups = 1

\* authenticate looks the principal up a second time exactly when it
\* routes into authenticate_totp: the password was right and a code was
\* supplied
C35_SecondLookupWhenRouted ==
    (res.op = "authenticate") =>
        /\ res.lookups \in { 1, 2 }
        /\ res.lookups = 2 <=> (PasswordRight /\ res.token.kind # "none")

(* ------------- one token while the principal store changes ------------ *)
\* encode_token(user), encode_token(user, is_registration_token=True) or
\* encode_token(user, is_reset_token=True) has just returned at time 0 and
\* the caller keeps the token
InitPrincipals ==
    /\ now = 0
    /\ token_provider \in { "jwt", "paseto" }
    /\ totp_enforce = DEFAULT_TOTP_ENFORCE
    /\ hash_autoupdate = DEFAULT_HASH_AUTOUPDATE
    /\ hash_autotest = DEFAULT_HASH_AUTOTEST
    /\ users \in StoreChoices
    /\ calls = NoCalls
    /\ request = NoRequest
    /\ token_places = DEFAULT_TOKEN_PLACES
    /\ paseto_key = NoKeys
    /\ config = EmptyDict
    /\ extensions = EmptyDict
    /\ source_text = << >>
    /\ blacklist = {}
    /\ nextJti = 2
    /\ \E i \in UserIds, orr \in { NoOverride, MaxTime },
          tag \in TagChoices :
           LET payload_parts ==
                   EncodePayload(users[i], 0, NoOverride, orr,
                                 tag = "registration", tag = "reset",
                                 EmptyDict, 1)
           IN  /\ held = EncodeWire(token_provider, payload_parts,
                                    payload_parts["exp"], 0)
               /\ origin = [ user |-> users[i], custom |-> EmptyDict,
                             defaults |-> orr = NoOverride,
                             tagged |-> tag # "none", fresh |-> TRUE ]
               /\ issued = { [ token |-> held, root |-> 1,
                               refreshed |-> FALSE, used |-> FALSE ] }
    /\ data = EmptyDict
    /\ res = Idle

\* get_user_from_registration_token(token) or validate_reset_token(token)
\* on the token the caller holds
DoRedeemHeld ==
    /\ held # NoToken
    /\ \/ GetUserFromRegistrationToken(held)
       \/ ValidateResetToken(held)

NextPrincipals ==
    \/ DoExtractHeld \/ DoRefreshHeld \/ DoRedeemHeld \/ NoteUse
    \/ ChangeRoles \/ DeleteUser \/ DeactivateUser \/ Tick

SpecPrincipals == InitPrincipals /\ [][NextPrincipals]_vars

(* ------------------------------- C36 ---------------------------------- *)
\* the token just presented had been accepted by an earlier call
PresentedAgain ==
    /\ res.op \in { "get_user_from_registration_token",
                    "validate_reset_token" }
    /\ res.input \in KeptTokens
    /\ Kept(res.input).used

\* C36: a registration (or reset) token that get_user_from_registration_token
\* (or validate_reset_token) has accepted once is not accepted when it is
\* presented again
C36_OneShot == PresentedAgain => res.err # "ok"

(* ------------------------------- C37 ---------------------------------- *)
\* the principal the claims of the token name, as the store has it now
NamedPrincipal(d) ==
    IF "id" \in DOMAIN d THEN identify(users, d["id"]) ELSE NoUser

\* C37: the outcome of extract_token is the validator's verdict on the
\* claims, the clock and the blacklist alone, whatever the principal store
\* holds: a token whose principal has been deleted or deactivated still
\* extracts for access until exp; refresh_token and the registration/reset
\* helpers are the operations that notice the principal
C37_ExtractIgnoresStore ==
    /\ (res.op = "extract") =>
           /\ res.err = _validate_token_data(res.decoded, res.access_type,
                                             res.moment, blacklist)
           /\ ( /\ res.access_type = "access"
                /\ Untagged(res.decoded)
                /\ res.moment <= res.decoded["exp"] )
              => res.err = "ok"
    /\ ( /\ res.op = "refresh"
         /\ res.err \in { "MissingUserError", "InvalidUserError" } )
       => /\ _check_user(NamedPrincipal(res.decoded)) = res.err
          /\ _validate_token_data(res.decoded, "refresh", res.vmoment,
                                  blacklist) = "ok"
    /\ ( /\ res.op \in { "get_user_from_registration_token",
                         "validate_reset_token" }
         /\ _validate_token_data(res.decoded, res.access_type, res.moment,
                                 blacklist) = "ok" )
       => (res.err = "ok" <=> NamedPrincipal(res.decoded).present)

\* extract_token has just returned the claims of an unexpired access token
\* whose principal is no longer in the store
C37_Witness ==
    /\ res.op = "extract"
    /\ res.access_type = "access"
    /\ res.err = "ok"
    /\ ~NamedPrincipal(res.decoded).present

\* extract_token has just returned the claims of an unexpired access token
\* whose principal has been deactivated
C37_WitnessDeactivated ==
    /\ res.op = "extract"
    /\ res.access_type = "access"
    /\ res.err = "ok"
    /\ NamedPrincipal(res.decoded).present
    /\ NamedPrincipal(res.decoded).has_validate
    /\ ~NamedPrincipal(res.decoded).is_active

(* ------------------------------- C38 ---------------------------------- *)
\* the access expiry of the claims is not before their refresh expiry:
\* min(moment + access lifespan, refresh_expiration) was refresh_expiration
Clamped(d) ==
    /\ "exp" \in DOMAIN d
    /\ REFRESH_EXPIRATION_CLAIM \in DOMAIN d
    /\ d["exp"] >= d[REFRESH_EXPIRATION_CLAIM]

\* C38: a token whose exp was clamped to refresh_exp (every token of
\* encode_eternal_token among them) is never refreshed: refresh_token fails
\* with EarlyRefreshError while now <= exp and with ExpiredRefreshError once
\* now > refresh_exp, and there is no time in between (a purpose-tagged
\* token is refused as misused before its times are looked at)
C38_ClampedNeverRefreshed ==
    (res.op = "refresh" /\ Clamped(res.decoded)) =>
        /\ res.err # "ok"
        /\ res.token = NoToken
        /\ held = res.input
        /\ Untagged(res.decoded) =>
              /\ res.err \in { "EarlyRefreshError", "ExpiredRefreshError" }
              /\ res.err = "EarlyRefreshError"
                     <=> res.vmoment <= res.decoded["exp"]
              /\ res.err = "ExpiredRefreshError"
                     => res.vmoment > res.decoded[REFRESH_EXPIRATION_CLAIM]
        /\ ~Untagged(res.decoded) =>
              res.err \in { "MisusedRegistrationToken",
                            "MisusedResetToken" }

\* refresh_token has refused, as too late, a token that was still valid for
\* access one second earlier
C38_Witness ==
    /\ res.op = "refresh"
    /\ Clamped(res.decoded)
    /\ res.decoded["exp"] = res.decoded[REFRESH_EXPIRATION_CLAIM]
    /\ res.decoded["exp"] > res.decoded["iat"]
    /\ res.vmoment = res.decoded["exp"] + 1
    /\ res.err = "ExpiredRefreshError"

\* refresh_token has refused a token of encode_eternal_token as too early
C38_WitnessEternal ==
    /\ res.op = "refresh"
    /\ res.decoded["exp"] = res.decoded["iat"] + VITAM_AETERNUM
    /\ res.decoded[REFRESH_EXPIRATION_CLAIM] = res.decoded["exp"]
    /\ now > res.decoded["iat"]
    /\ res.err = "EarlyRefreshError"

(* ------------------------------- C39 ---------------------------------- *)
\* the payload refresh_token would build now from the token the caller
\* holds
WouldRefreshTo ==
    RefreshPayload(DecodeWire(token_provider, held),
                   NamedPrincipal(DecodeWire(token_provider, held)), now,
                   NoOverride)

\* C39: the rls claim of a refreshed token is the role names of the
\* principal as the store has it at refresh time, not the rls of the old
\* token, while id is the id of the old token; the purpose tags of the old
\* token are never among the claims copied to the new one
C39_RolesRecomputedOnRefresh ==
    /\ (res.op = "refresh" /\ res.err = "ok") =>
           /\ res.claims["rls"]
                  = JoinComma(NamedPrincipal(res.decoded).rolenames)
           /\ DecodeWire(token_provider, res.token)["rls"]
                  = res.claims["rls"]
           /\ res.claims["id"] = res.decoded["id"]
           /\ DecodeWire(token_provider, res.token)["id"]
                  = res.decoded["id"]
           /\ Untagged(res.claims)
    /\ (held # NoToken) =>
           /\ Untagged(WouldRefreshTo)
           /\ WouldRefreshTo["id"] = DecodeWire(token_provider, held)["id"]
           /\ WouldRefreshTo["jti"]
                  = DecodeWire(token_provider, held)["jti"]
           /\ WouldRefreshTo["rls"]
                  = JoinComma(NamedPrincipal(
                        DecodeWire(token_provider, held)).rolenames)

\* refresh_token has just returned a token whose rls differs from the rls
\* of the token it was given: the roles were changed after issuance
C39_Witness ==
    /\ res.op = "refresh"
    /\ res.err = "ok"
    /\ res.decoded["rls"] = "admin,operator"
    /\ res.claims["rls"] = "operator"
    /\ res.claims["id"] = res.decoded["id"]

\* the caller holds a purpose-tagged token, from which refresh_token would
\* copy nothing but the reserved claims it rebuilds
C39_WitnessTagged ==
    /\ held # NoToken
    /\ ~Untagged(DecodeWire(token_provider, held))
    /\ Untagged(WouldRefreshTo)

====
